---- MODULE Spec2Model ----
(***************************************************************************)
(* bolt-proxy: the routing-table monitor (backend/monitor.go), the        *)
(* routing snapshot builder and the backend authenticator                  *)
(* (backend/backend.go), the message parser (bolt.Parse), the client       *)
(* sessions (handleConn, handleClient, splice), the connection readers     *)
(* (DirectConn, WsConn), the PackStream reader (bolt.ParseTinyMap) and     *)
(* Backend.RoutingTable under concurrent sessions.                         *)
(*                                                                         *)
(* Time is discrete; one unit is one second (time.Second), the unit of the *)
(* server-declared ttl.  A time.Duration is kept as a number of seconds.   *)
(***************************************************************************)
EXTENDS Integers, Sequences, FiniteSets, TLC

VARIABLES
    \* ---- routing monitor (NewMonitor and its goroutine) ----
    chanC,        \* the channel c (Monitor.C): a sequence of snapshots
    chanH,        \* the channel h (Monitor.halt): number of queued halt signals
    monPc,        \* position of the monitor goroutine
    outerRt,      \* NewMonitor's rt, captured by the goroutine
    innerRt,      \* the rt declared inside "case <-ticker.C"
    tickerOn,     \* the ticker is running
    tickerPeriod, \* its period
    tickerLeft,   \* time left until its next tick
    tickPending,  \* ticker.C holds a tick (capacity one)
    wdLeft,       \* time left until the select's time.After fires
    proc,         \* the process: running, or how it ended
    clock,        \* the monotonic clock
    nextId,       \* identity of the next *RoutingTable allocated
    published,    \* identity of the snapshot of the last refresh whose publish step ended
    halted,       \* the goroutine has received the halt signal
    recvLog,      \* per consumer: what it received from Monitor.C
    \* ---- getNewRoutingTable on one query result ----
    qNames,       \* the result of queryDbNames
    qRows,        \* the rows of ROUTING_QUERY
    rtPc,         \* "query", "built", "failed"
    rtOut,        \* the snapshot built
    \* ---- Backend.Authenticate ----
    aHosts,       \* rt.Hosts
    aWriter,      \* defaultWriter
    accepts,      \* the hosts that accept this HELLO
    aPc,          \* position of Authenticate
    attempts,     \* per host: authClient calls made to it
    toVisit,      \* hosts the range loop has not visited yet
    hostVar,      \* the loop variable host
    tasks,        \* the goroutines of the fan-out
    chanP,        \* the channel c of pairs
    conns,        \* the map conns: host -> the host its connection is open to
    \* ---- bolt.Parse on one buffer ----
    pFrames,      \* the complete frames of the input, each a sequence of chunks
    pTrunc,       \* the bytes of the truncated last frame
    pSpare,       \* the bytes of the backing array after len(buf)
    pPc,          \* "call", "returned", "panicked"
    pOut,         \* what Parse returned
    \* ---- client sessions (handleConn, handleClient, splice) ----
    sniff,        \* per session: what the first conn.Read(buf[:4]) returns
    script,       \* per session: what the client writes after that
    sPc,          \* per session: position of its handleConn goroutine
    cliSent,      \* per session: messages of the script written so far
    cliRead,      \* per session: messages read by the session so far
    cliEnd,       \* per session: "open", "eof" or "reset"
    helloN,       \* per session: messages returned by the read of the HELLO
    authCalls,    \* per session: calls of b.Authenticate
    toClient,     \* per session: what was written to the client
    toServer,     \* per session: what was written to server
    srvSent,      \* per session: replies written by the backend so far
    srvRead,      \* per session: replies read by the splices so far
    splices,      \* per session: the splice goroutines, in start order
    server,       \* per session: the host of the connection "server"
    backends,     \* per session: hosts with an open backend connection
    sProc,        \* the process: "running", "fatal" (log.Fatal) or "panic"
    \* ---- the direct connection reader (NewDirectConn, readMessage) ----
    dcFrames,     \* the messages placed on the stream
    dcStream,     \* the bytes of the stream not read yet
    dcEnd,        \* how the stream ends: "eof" or "error"
    dcBuf,        \* c.buf
    dcPos,        \* pos
    dcUnder,      \* underReads
    dcHeld,       \* n of the last read when it was an under-read, else 0
    dcEndOfData,  \* endOfData
    dcPc,         \* position of the goroutine
    dcMsg,        \* the message the goroutine is sending
    dcReturned,   \* the messages readMessage has returned
    dcRecv,       \* the messages the consumer has received
    dcChan,       \* msgchan: "open" or "closed"
    dcConsumer,   \* the consumer: "ranging" or "done"
    \* ---- WsConn.readMessages on one frame ----
    wsParts,      \* the parts of the payload
    wsMask,       \* the masking key, <<>> for an unmasked frame
    wsHeader,     \* Fin and OpCode of the frame header
    wsN,          \* the number of bytes the read of the payload returns
    wsBuf,        \* c.buf
    wsPc,         \* "call", "returned", "hungup", "panicked"
    wsOut,        \* the messages returned
    \* ---- bolt.ParseTinyMap on one encoded tiny-map ----
    tmMap,        \* the members of the map that was encoded
    tmCut,        \* how many bytes of the encoding are missing at the end
    tmPc,         \* "call", "returned", "panicked"
    tmOut,        \* what ParseTinyMap returned
    \* ---- Backend.RoutingTable called by concurrent sessions ----
    bkTtl,        \* the ttl the cluster declares
    bkClock,      \* seconds since NewMonitor
    bkTickLeft,   \* seconds until the monitor's ticker fires
    bkNextId,     \* the number of the next snapshot
    bkSlot,       \* monitor.C
    bkCached,     \* b.routingTable
    bkCalls,      \* per session: where its call of RoutingTable() is
    bkProc,       \* "running" or "fatalTimeout"
    \* ---- splice on the bytes of one backend stream ----
    spFrames,     \* the messages the backend sends
    spStream,     \* the bytes of them splice has not read yet
    spBuf,        \* buf
    spWritten,    \* the number of bytes written to w
    spPc          \* "read", "done", "panicked"

monVars == <<chanC, chanH, monPc, outerRt, innerRt, tickerOn, tickerPeriod,
             tickerLeft, tickPending, wdLeft, proc, clock, nextId, published,
             halted, recvLog>>
rtVars == <<qNames, qRows, rtPc, rtOut>>
authVars == <<aHosts, aWriter, accepts, aPc, attempts, toVisit, hostVar, tasks,
              chanP, conns>>
parseVars == <<pFrames, pTrunc, pSpare, pPc, pOut>>
sessVars == <<sniff, script, sPc, cliSent, cliRead, cliEnd, helloN, authCalls,
              toClient, toServer, srvSent, srvRead, splices, server, backends,
              sProc>>
dcVars == <<dcFrames, dcStream, dcEnd, dcBuf, dcPos, dcUnder, dcHeld,
            dcEndOfData, dcPc, dcMsg, dcReturned, dcRecv, dcChan, dcConsumer>>
wsVars == <<wsParts, wsMask, wsHeader, wsN, wsBuf, wsPc, wsOut>>
tmVars == <<tmMap, tmCut, tmPc, tmOut>>
bkVars == <<bkTtl, bkClock, bkTickLeft, bkNextId, bkSlot, bkCached, bkCalls,
            bkProc>>
spVars == <<spFrames, spStream, spBuf, spWritten, spPc>>
moreVars == <<dcVars, wsVars, tmVars, bkVars, spVars>>
vars == <<monVars, rtVars, authVars, parseVars, sessVars, moreVars>>

(***************************************************************************)
(* Bounds                                                                  *)
(***************************************************************************)
MaxTime == 6
MaxSnapshots == 3
MaxRecv == 2
NumConsumers == 2
MaxRows == 2

Consumers == 1..NumConsumers

(***************************************************************************)
(* Program constants                                                       *)
(***************************************************************************)
ChanCap == 1
HaltCap == 1
WatchdogFactor == 5

(***************************************************************************)
(* The query results                                                       *)
(***************************************************************************)
DbNames == {"db1", "db2"}
Addresses == {"h1", "h2"}
Roles == {"READ", "WRITE", "ROUTE", "BOGUS"}
RowTtls == {0, 1, 2}

Row == [name : DbNames, ttl : RowTtls, role : Roles, address : Addresses]

\* SHOW DATABASES ... ORDER BY default DESC: the default database first
NameLists == {<<>>, <<"db1">>, <<"db1", "db2">>, <<"db2", "db1">>}

RECURSIVE SeqsUpTo(_, _)
SeqsUpTo(S, n) ==
    IF n = 0 THEN {<<>>}
    ELSE LET shorter == SeqsUpTo(S, n - 1)
         IN shorter \cup {Append(s, x) : s \in {t \in shorter : Len(t) = n - 1}, x \in S}

Range(s) == {s[i] : i \in 1..Len(s)}

\* ROUTING_QUERY unwinds $names: every row is of a database that was asked for
RowsFor(names) == SeqsUpTo({r \in Row : r.name \in Range(names)}, MaxRows)

(***************************************************************************)
(* routingTableTx: the rows folded into a map from database to table       *)
(***************************************************************************)
newTable(name, ttl) == [db |-> name, ttl |-> ttl, readers |-> <<>>, writers |-> <<>>]

MapPut(m, k, v) == [x \in (DOMAIN m) \cup {k} |-> IF x = k THEN v ELSE m[x]]

\* the switch on role: what one row does to its table t, "skip" for continue
roleSwitchRouteAsReader(t, role, addr) ==
    CASE role = "READ"  -> [kind |-> "put", t |-> [t EXCEPT !.readers = Append(@, addr)]]
      [] role = "WRITE" -> [kind |-> "put", t |-> [t EXCEPT !.writers = Append(@, addr)]]
      [] role = "ROUTE" -> [kind |-> "put", t |-> [t EXCEPT !.readers = Append(@, addr)]]
      [] OTHER          -> [kind |-> "err", t |-> t]

roleSwitch(t, role, addr) ==
    CASE role = "READ"  -> [kind |-> "put", t |-> [t EXCEPT !.readers = Append(@, addr)]]
      [] role = "WRITE" -> [kind |-> "put", t |-> [t EXCEPT !.writers = Append(@, addr)]]
      [] role = "ROUTE" -> [kind |-> "skip", t |-> t]
      [] OTHER          -> [kind |-> "err", t |-> t]

RECURSIVE txFold(_, _, _)
txFold(rows, i, tableMap) ==
    IF i > Len(rows) THEN [err |-> FALSE, tableMap |-> tableMap]
    ELSE LET row == rows[i]
             t == IF row.name \in DOMAIN tableMap
                  THEN tableMap[row.name]
                  ELSE newTable(row.name, row.ttl)
             step == roleSwitch(t, row.role, row.address)
         IN CASE step.kind = "put"  -> txFold(rows, i + 1, MapPut(tableMap, row.name, step.t))
              [] step.kind = "skip" -> txFold(rows, i + 1, tableMap)
              [] OTHER              -> [err |-> TRUE, tableMap |-> <<>>]

routingTableTx(rows) == txFold(rows, 1, <<>>)

(***************************************************************************)
(* getNewRoutingTable: the snapshots it may build from a query result.     *)
(* "for db, t := range tableMap" visits the databases in any order and     *)
(* rt.Ttl is the ttl of the one visited last; with no database it keeps    *)
(* the zero value.                                                         *)
(***************************************************************************)
ttlChoices(tableMap) ==
    IF DOMAIN tableMap = {} THEN {0} ELSE {tableMap[db].ttl : db \in DOMAIN tableMap}

hostSet(r, w) == Range(r) \cup Range(w)

timeNowWrapped(clk) == clk % 2

timeNow(clk) == clk

getNewRoutingTable(names, rows, clk) ==
    LET tableMap == routingTableTx(rows).tableMap
    IN {[DefaultDb |-> names[1],
         readers   |-> [db \in DOMAIN tableMap |-> tableMap[db].readers],
         writers   |-> [db \in DOMAIN tableMap |-> tableMap[db].writers],
         CreatedAt |-> timeNow(clk),
         Hosts     |-> UNION {hostSet(tableMap[db].readers, tableMap[db].writers) :
                                 db \in DOMAIN tableMap},
         Ttl       |-> ttl] : ttl \in ttlChoices(tableMap)}

\* names[0] of an empty list panics; an invalid role is an error
queryPanics(names) == Len(names) = 0
queryFails(rows) == routingTableTx(rows).err

(***************************************************************************)
(* One call of getNewRoutingTable on one query result                      *)
(***************************************************************************)
NoRt == [DefaultDb |-> "", readers |-> <<>>, writers |-> <<>>, CreatedAt |-> 0,
         Hosts |-> {}, Ttl |-> 0]

RtBuild ==
    /\ rtPc = "query"
    /\ ~queryPanics(qNames)
    /\ ~queryFails(qRows)
    /\ \E rt \in getNewRoutingTable(qNames, qRows, 0) : rtOut' = rt
    /\ rtPc' = "built"
    /\ UNCHANGED <<qNames, qRows>>
    /\ UNCHANGED <<monVars, authVars, parseVars, sessVars, moreVars>>

RtFail ==
    /\ rtPc = "query"
    /\ queryPanics(qNames) \/ queryFails(qRows)
    /\ rtPc' = "failed"
    /\ UNCHANGED <<qNames, qRows, rtOut>>
    /\ UNCHANGED <<monVars, authVars, parseVars, sessVars, moreVars>>

RtInit ==
    /\ qNames \in NameLists
    /\ qRows \in RowsFor(qNames)
    /\ rtPc = "query"
    /\ rtOut = NoRt

(***************************************************************************)
(* NewMonitor.  The query results the monitor's cluster may return: one    *)
(* database with a writer and a reader and a server-declared ttl, or no    *)
(* row at all.                                                             *)
(***************************************************************************)
MonTtls == {1, 5}

rowsWithTtl(t) ==
    <<[name |-> "db1", ttl |-> t, role |-> "WRITE", address |-> "h1"],
      [name |-> "db1", ttl |-> t, role |-> "READ", address |-> "h2"]>>

MonResults ==
    {[names |-> <<"db1">>, rows |-> rowsWithTtl(t)] : t \in MonTtls}
        \cup {[names |-> <<"db1">>, rows |-> <<>>]}

\* the snapshots one refresh may build: a *RoutingTable is a pointer and its value
Snapshots(id, clk) ==
    {[ptr |-> id, rt |-> rt] :
        rt \in UNION {getNewRoutingTable(res.names, res.rows, clk) : res \in MonResults}}

\* "select { case <-c: default: }"
drainNothing(ch) == ch

drain(ch) == IF Len(ch) > 0 THEN Tail(ch) ELSE ch

\* "case c <- rt": rt is the one declared in the case, not NewMonitor's
sentValueOuter(outer, inner) == outer

sentValue(outer, inner) == inner

\* "time.After(5 * rt.Ttl)" belongs to the goroutine's for loop, outside the
\* case: its rt is NewMonitor's
watchdogTimeout(outer, inner) == WatchdogFactor * outer.rt.Ttl

\* "case <-h": ticker.Stop() and a log line, then the for loop goes on
afterHalt == "select"

Running == proc = "running"

NoSnapshot == [ptr |-> 0, rt |-> NoRt]

\* NewMonitor is entered: c and h are made, nothing is sent yet
MonInit ==
    /\ outerRt = NoSnapshot
    /\ innerRt = NoSnapshot
    /\ chanC = <<>>
    /\ chanH = 0
    /\ monPc = "new"
    /\ tickerOn = FALSE
    /\ tickerPeriod = 0
    /\ tickerLeft = 0
    /\ tickPending = FALSE
    /\ wdLeft = 0
    /\ proc = "running"
    /\ clock = 0
    /\ nextId = 1
    /\ published = 0
    /\ halted = FALSE
    /\ recvLog = [c \in Consumers |-> <<>>]

\* "rt, err := getNewRoutingTable(&driver)", "c <- rt" and "go func()".  Until
\* the first tick the snapshot of the last refresh is this one: innerRt holds it.
MonNew ==
    /\ Running
    /\ monPc = "new"
    /\ outerRt' \in Snapshots(nextId, clock)
    /\ innerRt' = outerRt'
    /\ chanC' = Append(chanC, outerRt')
    /\ published' = outerRt'.ptr
    /\ nextId' = nextId + 1
    /\ monPc' = "start"
    /\ UNCHANGED <<chanH, tickerOn, tickerPeriod, tickerLeft, tickPending, wdLeft,
                   proc, clock, halted, recvLog>>
    /\ UNCHANGED <<rtVars, authVars, parseVars, sessVars, moreVars>>

\* the first getNewRoutingTable returns an error: log.Fatal
MonNewErr ==
    /\ Running
    /\ monPc = "new"
    /\ proc' = "fatalQuery"
    /\ UNCHANGED <<chanC, chanH, monPc, outerRt, innerRt, tickerOn, tickerPeriod,
                   tickerLeft, tickPending, wdLeft, clock, nextId, published,
                   halted, recvLog>>
    /\ UNCHANGED <<rtVars, authVars, parseVars, sessVars, moreVars>>

\* "ticker := time.NewTicker(rt.Ttl)": panics on a non-positive duration
MonStart ==
    /\ Running
    /\ monPc = "start"
    /\ IF outerRt.rt.Ttl <= 0
       THEN /\ proc' = "panicTicker"
            /\ UNCHANGED <<monPc, tickerOn, tickerPeriod, tickerLeft, wdLeft>>
       ELSE /\ tickerOn' = TRUE
            /\ tickerPeriod' = outerRt.rt.Ttl
            /\ tickerLeft' = outerRt.rt.Ttl
            /\ monPc' = "select"
            /\ wdLeft' = watchdogTimeout(outerRt, innerRt)
            /\ UNCHANGED proc
    /\ UNCHANGED <<chanC, chanH, outerRt, innerRt, tickPending, clock, nextId,
                   published, halted, recvLog>>
    /\ UNCHANGED <<rtVars, authVars, parseVars, sessVars, moreVars>>

\* "case <-ticker.C": the goroutine enters getNewRoutingTable
MonTick ==
    /\ Running
    /\ monPc = "select"
    /\ tickPending
    /\ tickPending' = FALSE
    /\ monPc' = "query"
    /\ wdLeft' = 0
    /\ UNCHANGED <<chanC, chanH, outerRt, innerRt, tickerOn, tickerPeriod,
                   tickerLeft, proc, clock, nextId, published, halted, recvLog>>
    /\ UNCHANGED <<rtVars, authVars, parseVars, sessVars, moreVars>>

\* getNewRoutingTable returns a new snapshot
MonQueryOk ==
    /\ Running
    /\ monPc = "query"
    /\ nextId <= MaxSnapshots
    /\ innerRt' \in Snapshots(nextId, clock)
    /\ nextId' = nextId + 1
    /\ monPc' = "reset"
    /\ UNCHANGED <<chanC, chanH, outerRt, tickerOn, tickerPeriod, tickerLeft,
                   tickPending, wdLeft, proc, clock, published, halted, recvLog>>
    /\ UNCHANGED <<rtVars, authVars, parseVars, sessVars, moreVars>>

\* getNewRoutingTable returns an error: log.Fatal
MonQueryErr ==
    /\ Running
    /\ monPc = "query"
    /\ proc' = "fatalQuery"
    /\ UNCHANGED <<chanC, chanH, monPc, outerRt, innerRt, tickerOn, tickerPeriod,
                   tickerLeft, tickPending, wdLeft, clock, nextId, published,
                   halted, recvLog>>
    /\ UNCHANGED <<rtVars, authVars, parseVars, sessVars, moreVars>>

\* "ticker.Reset(rt.Ttl)": panics on a non-positive duration, restarts a
\* stopped ticker, leaves a tick already in ticker.C where it is
MonReset ==
    /\ Running
    /\ monPc = "reset"
    /\ IF innerRt.rt.Ttl <= 0
       THEN /\ proc' = "panicTicker"
            /\ UNCHANGED <<monPc, tickerOn, tickerPeriod, tickerLeft>>
       ELSE /\ tickerOn' = TRUE
            /\ tickerPeriod' = innerRt.rt.Ttl
            /\ tickerLeft' = innerRt.rt.Ttl
            /\ monPc' = "drain"
            /\ UNCHANGED proc
    /\ UNCHANGED <<chanC, chanH, outerRt, innerRt, tickPending, wdLeft, clock,
                   nextId, published, halted, recvLog>>
    /\ UNCHANGED <<rtVars, authVars, parseVars, sessVars, moreVars>>

\* the first select of the publish step
MonDrain ==
    /\ Running
    /\ monPc = "drain"
    /\ chanC' = drain(chanC)
    /\ monPc' = "send"
    /\ UNCHANGED <<chanH, outerRt, innerRt, tickerOn, tickerPeriod, tickerLeft,
                   tickPending, wdLeft, proc, clock, nextId, published, halted,
                   recvLog>>
    /\ UNCHANGED <<rtVars, authVars, parseVars, sessVars, moreVars>>

\* the second select of the publish step: send, or panic("monitor channel full")
MonSend ==
    /\ Running
    /\ monPc = "send"
    /\ IF Len(chanC) < ChanCap
       THEN /\ chanC' = Append(chanC, sentValue(outerRt, innerRt))
            /\ published' = innerRt.ptr
            /\ monPc' = "select"
            /\ wdLeft' = watchdogTimeout(outerRt, innerRt)
            /\ UNCHANGED proc
       ELSE /\ proc' = "panicChannelFull"
            /\ UNCHANGED <<chanC, published, monPc, wdLeft>>
    /\ UNCHANGED <<chanH, outerRt, innerRt, tickerOn, tickerPeriod, tickerLeft,
                   tickPending, clock, nextId, halted, recvLog>>
    /\ UNCHANGED <<rtVars, authVars, parseVars, sessVars, moreVars>>

\* "case <-h": ticker.Stop(), which leaves a tick already in ticker.C
MonHalt ==
    /\ Running
    /\ monPc = "select"
    /\ chanH > 0
    /\ chanH' = chanH - 1
    /\ tickerOn' = FALSE
    /\ halted' = TRUE
    /\ monPc' = afterHalt
    /\ wdLeft' = watchdogTimeout(outerRt, innerRt)
    /\ UNCHANGED <<chanC, outerRt, innerRt, tickerPeriod, tickerLeft, tickPending,
                   proc, clock, nextId, published, recvLog>>
    /\ UNCHANGED <<rtVars, authVars, parseVars, sessVars, moreVars>>

\* "case <-time.After(5 * rt.Ttl)": log.Fatalf
MonWatchdog ==
    /\ Running
    /\ monPc = "select"
    /\ wdLeft = 0
    /\ proc' = "fatalWatchdog"
    /\ UNCHANGED <<chanC, chanH, monPc, outerRt, innerRt, tickerOn, tickerPeriod,
                   tickerLeft, tickPending, wdLeft, clock, nextId, published,
                   halted, recvLog>>
    /\ UNCHANGED <<rtVars, authVars, parseVars, sessVars, moreVars>>

\* Monitor.Stop: a non-blocking send on halt
Stop ==
    /\ Running
    /\ chanH' = IF chanH < HaltCap THEN chanH + 1 ELSE chanH
    /\ UNCHANGED <<chanC, monPc, outerRt, innerRt, tickerOn, tickerPeriod,
                   tickerLeft, tickPending, wdLeft, proc, clock, nextId,
                   published, halted, recvLog>>
    /\ UNCHANGED <<rtVars, authVars, parseVars, sessVars, moreVars>>

\* a consumer receives from Monitor.C ("<-monitor.C")
Recv(c) ==
    /\ Running
    /\ Len(chanC) > 0
    /\ Len(recvLog[c]) < MaxRecv
    /\ recvLog' = [recvLog EXCEPT ![c] =
                      Append(@, [ptr       |-> Head(chanC).ptr,
                                 CreatedAt |-> Head(chanC).rt.CreatedAt,
                                 Ttl       |-> Head(chanC).rt.Ttl,
                                 latest    |-> published])]
    /\ chanC' = Tail(chanC)
    /\ UNCHANGED <<chanH, monPc, outerRt, innerRt, tickerOn, tickerPeriod,
                   tickerLeft, tickPending, wdLeft, proc, clock, nextId,
                   published, halted>>
    /\ UNCHANGED <<rtVars, authVars, parseVars, sessVars, moreVars>>

\* One second passes.  The goroutine's own steps take no time; time passes while
\* it waits in the select with no case ready, or inside getNewRoutingTable, whose
\* queries may take any time to return.
selectReady == tickPending \/ wdLeft = 0 \/ chanH > 0

Advance ==
    /\ Running
    /\ clock < MaxTime
    /\ \/ monPc = "query"
       \/ monPc = "select" /\ ~selectReady
    /\ clock' = clock + 1
    /\ tickerLeft' = IF tickerOn
                     THEN (IF tickerLeft = 1 THEN tickerPeriod ELSE tickerLeft - 1)
                     ELSE tickerLeft
    /\ tickPending' = (tickPending \/ (tickerOn /\ tickerLeft = 1))
    /\ wdLeft' = IF monPc = "select" THEN wdLeft - 1 ELSE wdLeft
    /\ UNCHANGED <<chanC, chanH, monPc, outerRt, innerRt, tickerOn, tickerPeriod,
                   proc, nextId, published, halted, recvLog>>
    /\ UNCHANGED <<rtVars, authVars, parseVars, sessVars, moreVars>>

(***************************************************************************)
(* Backend.Authenticate.  authClient(hello, "tcp", h, tls) opens a         *)
(* connection to h and replays the HELLO bytes on it; h accepts or         *)
(* rejects.  A connection is identified by the host it is open to.         *)
(***************************************************************************)
AuthHosts == {"h1", "h2", "h3"}

authClient(h, accepting) == h \in accepting

\* "if err != nil { return nil, err }" after the probe
afterProbeIgnoreErr(ok) == "loop"

afterProbe(ok) == IF ok THEN "loop" ELSE "failed"

\* the host a goroutine of the fan-out reads when it runs: the closure holds the
\* loop variable itself, not a copy taken when the goroutine was started
closureHost(current, atSpawn) == current

NoHost == "none"

AuthInit ==
    /\ aHosts \in {H \in SUBSET AuthHosts : "h1" \in H}
    /\ aWriter = "h1"
    /\ accepts \in SUBSET aHosts
    /\ aPc = "probe"
    /\ attempts = [h \in AuthHosts |-> 0]
    /\ toVisit = aHosts
    /\ hostVar = NoHost
    /\ tasks = <<>>
    /\ chanP = <<>>
    /\ conns = <<>>

\* "conn, err := authClient(hello.Data, "tcp", defaultWriter, b.tls)"
AuthProbe ==
    /\ aPc = "probe"
    /\ attempts' = [attempts EXCEPT ![aWriter] = @ + 1]
    /\ aPc' = afterProbe(authClient(aWriter, accepts))
    /\ conns' = IF authClient(aWriter, accepts) THEN MapPut(conns, aWriter, aWriter) ELSE conns
    /\ UNCHANGED <<aHosts, aWriter, accepts, toVisit, hostVar, tasks, chanP>>
    /\ UNCHANGED <<monVars, rtVars, parseVars, sessVars, moreVars>>

\* one iteration of "for host := range rt.Hosts": any host not visited yet
AuthLoop ==
    /\ aPc = "loop"
    /\ \E h \in toVisit :
          /\ hostVar' = h
          /\ toVisit' = toVisit \ {h}
          /\ tasks' = IF h # aWriter
                      THEN Append(tasks, [pc |-> "start", spawnedFor |-> h, conn |-> NoHost])
                      ELSE tasks
    /\ UNCHANGED <<aHosts, aWriter, accepts, aPc, attempts, chanP, conns>>
    /\ UNCHANGED <<monVars, rtVars, parseVars, sessVars, moreVars>>

\* the loop ends: wg.Wait()
AuthLoopEnd ==
    /\ aPc = "loop"
    /\ toVisit = {}
    /\ aPc' = "wait"
    /\ UNCHANGED <<aHosts, aWriter, accepts, attempts, toVisit, hostVar, tasks,
                   chanP, conns>>
    /\ UNCHANGED <<monVars, rtVars, parseVars, sessVars, moreVars>>

\* a goroutine calls authClient(hello.Data, "tcp", host, b.tls)
TaskAuth(i) ==
    /\ tasks[i].pc = "start"
    /\ LET h == closureHost(hostVar, tasks[i].spawnedFor)
       IN /\ attempts' = [attempts EXCEPT ![h] = @ + 1]
          /\ tasks' = [tasks EXCEPT ![i] =
                          IF authClient(h, accepts)
                          THEN [@ EXCEPT !.pc = "send", !.conn = h]
                          ELSE [@ EXCEPT !.pc = "done"]]
    /\ UNCHANGED <<aHosts, aWriter, accepts, aPc, toVisit, hostVar, chanP, conns>>
    /\ UNCHANGED <<monVars, rtVars, parseVars, sessVars, moreVars>>

\* a goroutine sends "pair{bolt.NewDirectConn(conn), host}" and is done
TaskSend(i) ==
    /\ tasks[i].pc = "send"
    /\ chanP' = Append(chanP, [conn |-> tasks[i].conn,
                               host |-> closureHost(hostVar, tasks[i].spawnedFor)])
    /\ tasks' = [tasks EXCEPT ![i].pc = "done"]
    /\ UNCHANGED <<aHosts, aWriter, accepts, aPc, attempts, toVisit, hostVar, conns>>
    /\ UNCHANGED <<monVars, rtVars, parseVars, sessVars, moreVars>>

\* wg.Wait() returns when every goroutine is done; close(c)
AuthWait ==
    /\ aPc = "wait"
    /\ \A i \in 1..Len(tasks) : tasks[i].pc = "done"
    /\ aPc' = "collect"
    /\ UNCHANGED <<aHosts, aWriter, accepts, attempts, toVisit, hostVar, tasks,
                   chanP, conns>>
    /\ UNCHANGED <<monVars, rtVars, parseVars, sessVars, moreVars>>

\* "for p := range c { conns[p.host] = p.conn }", then "return conns, err"
AuthCollect ==
    /\ aPc = "collect"
    /\ IF Len(chanP) > 0
       THEN /\ conns' = MapPut(conns, Head(chanP).host, Head(chanP).conn)
            /\ chanP' = Tail(chanP)
            /\ UNCHANGED aPc
       ELSE /\ aPc' = "returned"
            /\ UNCHANGED <<conns, chanP>>
    /\ UNCHANGED <<aHosts, aWriter, accepts, attempts, toVisit, hostVar, tasks>>
    /\ UNCHANGED <<monVars, rtVars, parseVars, sessVars, moreVars>>

(***************************************************************************)
(* bolt.Parse on one buffer.  A byte is a number in 0..255; a slice is the *)
(* backing array together with its length, so that buf[i:j] is defined up  *)
(* to the capacity, as in Go.                                              *)
(***************************************************************************)
MaxFrames == 2

slice(arr, lo, hi) == SubSeq(arr, lo + 1, hi)

Uint16(b) == b[1] * 256 + b[2]

HasSuffix(s, suffix) ==
    /\ Len(s) >= Len(suffix)
    /\ SubSeq(s, Len(s) - Len(suffix) + 1, Len(s)) = suffix

TypeFromByte(b) ==
    CASE b = 15 -> "RESET"
      [] b = 16 -> "RUN"
      [] b = 47 -> "DISCARD"
      [] b = 63 -> "PULL"
      [] b = 113 -> "RECORD"
      [] b = 112 -> "SUCCESS"
      [] b = 126 -> "IGNORE"
      [] b = 127 -> "FAILURE"
      [] b = 1 -> "HELLO"
      [] b = 2 -> "GOODBYE"
      [] b = 17 -> "BEGIN"
      [] b = 18 -> "COMMIT"
      [] b = 19 -> "ROLLBACK"
      [] OTHER -> "?UNKNOWN?"

IdentifyType(buf) ==
    IF Len(buf) < 4 THEN "NOP"
    ELSE IF buf[1] = 0 THEN TypeFromByte(buf[4])
    ELSE TypeFromByte(buf[3])

NoResult == [kind |-> "none", messages |-> <<>>, chunk |-> <<>>]

Panicked == [kind |-> "panic", messages |-> <<>>, chunk |-> <<>>]

\* the loop of Parse from index i on the slice arr[0:n]
RECURSIVE parseLoop(_, _, _, _)
parseLoop(arr, n, i, messages) ==
    IF i >= n
    THEN [kind |-> "ok", messages |-> messages, chunk |-> <<>>]
    ELSE IF i + 2 > Len(arr)
    THEN Panicked       \* buf[i : i+2]: slice bounds out of range
    ELSE LET msglen == Uint16(slice(arr, i, i + 2))
         IN  IF msglen + i + 4 > n
             THEN [kind |-> "ok", messages |-> messages,
                   chunk |-> slice(arr, i, n)]
             ELSE LET msg == slice(arr, i, i + msglen + 4)
                  IN  IF ~HasSuffix(msg, <<0, 0>>)
                      THEN Panicked
                      ELSE parseLoop(arr, n, i + Len(msg),
                               Append(messages,
                                      [T |-> IdentifyType(msg), Data |-> msg]))

Parse(arr, n) == parseLoop(arr, n, 0, <<>>)

\* ---- the input streams ----
\* chunk bodies: GOODBYE (B0 02), and SUCCESS {} (B1 70 A0) cut in two
ChunkData == {<<176, 2>>, <<177>>, <<112, 160>>}

encodeChunk(d) == <<Len(d) \div 256, Len(d) % 256>> \o d

RECURSIVE Concat(_)
Concat(ss) == IF ss = <<>> THEN <<>> ELSE Head(ss) \o Concat(Tail(ss))

encodeFrame(f) == Concat([k \in 1..Len(f) |-> encodeChunk(f[k])]) \o <<0, 0>>

encodeStream(fs) == Concat([k \in 1..Len(fs) |-> encodeFrame(fs[k])])

Frames == {<<d>> : d \in ChunkData} \cup {<<a, b>> : a, b \in ChunkData}

FrameSeqs == UNION {[1..k -> Frames] : k \in 0..MaxFrames}

\* a frame cut at any byte position before its end
Truncations ==
    UNION {{SubSeq(encodeFrame(<<d>>), 1, k) :
               k \in 0..(Len(encodeFrame(<<d>>)) - 1)} : d \in ChunkData}

Spares == {<<>>, <<9>>}

ParseInit ==
    /\ pFrames \in FrameSeqs
    /\ pTrunc \in Truncations
    /\ pSpare \in Spares
    /\ pPc = "call"
    /\ pOut = NoResult

pBuf == encodeStream(pFrames) \o pTrunc

ParseReturn ==
    /\ pPc = "call"
    /\ Parse(pBuf \o pSpare, Len(pBuf)).kind = "ok"
    /\ pOut' = Parse(pBuf \o pSpare, Len(pBuf))
    /\ pPc' = "returned"
    /\ UNCHANGED <<pFrames, pTrunc, pSpare>>
    /\ UNCHANGED <<monVars, rtVars, authVars, sessVars, moreVars>>

ParsePanic ==
    /\ pPc = "call"
    /\ Parse(pBuf \o pSpare, Len(pBuf)).kind = "panic"
    /\ pOut' = Panicked
    /\ pPc' = "panicked"
    /\ UNCHANGED <<pFrames, pTrunc, pSpare>>
    /\ UNCHANGED <<monVars, rtVars, authVars, sessVars, moreVars>>

(***************************************************************************)
(* Client sessions: handleConn, handleClient and splice (main).  A read    *)
(* returns whole messages: what the peer has written and the session has   *)
(* not read yet, or any non-empty part of it from the front.               *)
(***************************************************************************)
NumSessions == 1

Sessions == 1..NumSessions

BoltMagic == <<96, 96, 176, 23>>

GetMagic == <<71, 69, 84, 32>>

Msg(t, x) == [T |-> t, x |-> x]

\* what conn.Read(buf[:4]) returns: the bytes read, and whether err != nil
SniffReads ==
    {[bytes |-> b, err |-> FALSE] :
        b \in {BoltMagic, GetMagic, <<96, 96, 176>>, <<96>>, <<71, 69, 84>>,
               <<96, 96, 176, 24>>, <<23, 176, 96, 96>>, <<71, 69, 84, 47>>,
               <<80, 79, 83, 84>>, <<0, 0, 0, 0>>}}
    \cup {[bytes |-> b, err |-> TRUE] : b \in {<<>>, BoltMagic, GetMagic}}

\* what the client writes after the first four bytes
BoltScripts ==
    {<<Msg("VERSIONS", "4.2"), Msg("HELLO", "-"), Msg("RUN", "w"),
       Msg("PULL", "-")>>,
     <<Msg("VERSIONS", "4.2"), Msg("HELLO", "-"), Msg("BEGIN", "r"),
       Msg("RUN", "r")>>,
     <<Msg("VERSIONS", "4.2"), Msg("HELLO", "-"), Msg("MALFORMED", "-")>>,
     <<Msg("VERSIONS", "3.0")>>}

WsScripts ==
    {<<Msg("HTTP", "upgrade"), Msg("WSFRAME", "-")>>, <<Msg("HTTP", "plain")>>}

ClientInputs ==
    {[sniff |-> r, script |-> sc] :
        r \in {x \in SniffReads : x.bytes = BoltMagic}, sc \in BoltScripts}
    \cup {[sniff |-> r, script |-> sc] :
        r \in {x \in SniffReads : x.bytes = GetMagic}, sc \in WsScripts}
    \cup {[sniff |-> r, script |-> <<>>] :
        r \in {x \in SniffReads : x.bytes \notin {BoltMagic, GetMagic}}}

\* the routing table of the sessions: one writer and one reader
SessHosts == {"h1", "h2"}

SessWriters == {"h1"}

SessReaders == {"h2"}

dispatchIgnoreErr(r) ==
    IF Len(r.bytes) # 4 THEN "closed"
    ELSE IF r.bytes = BoltMagic THEN "handshake"
    ELSE IF r.bytes = GetMagic THEN "upgrade"
    ELSE "closed"

\* handleConn: where the first read sends the connection
dispatch(r) ==
    IF r.err \/ Len(r.bytes) # 4 THEN "closed"
    ELSE IF r.bytes = BoltMagic THEN "handshake"
    ELSE IF r.bytes = GetMagic THEN "upgrade"
    ELSE "closed"

ValidateHandshake(m) == m.T = "VERSIONS" /\ m.x = "4.2"

ValidateMode(m) == IF m.x = "r" THEN "READ" ELSE "WRITE"

\* bolt.Parse panics on a frame that does not end with 00 00
parsePanics(msgs) == \E k \in 1..Len(msgs) : msgs[k].T = "MALFORMED"

\* the reply of the backend to a message of the client
respOf(m) ==
    IF m.T \in {"PULL", "COMMIT"} THEN Msg("SUCCESS", "bookmark")
    ELSE Msg("SUCCESS", "-")

\* splice: the inspection of the messages of one read
finishes(msgs) ==
    \E k \in 1..Len(msgs) :
        \/ msgs[k].T = "GOODBYE"
        \/ msgs[k].T = "SUCCESS" /\ msgs[k].x = "bookmark"

avail(s) == cliSent[s] - cliRead[s]

nextMsgs(s, k) == SubSeq(script[s], cliRead[s] + 1, cliRead[s] + k)

responses(s) == [k \in 1..Len(toServer[s]) |-> respOf(toServer[s][k])]

SessInit ==
    /\ \E f \in [Sessions -> ClientInputs] :
          /\ sniff = [s \in Sessions |-> f[s].sniff]
          /\ script = [s \in Sessions |-> f[s].script]
    /\ sPc = [s \in Sessions |-> "sniff"]
    /\ cliSent = [s \in Sessions |-> 0]
    /\ cliRead = [s \in Sessions |-> 0]
    /\ cliEnd = [s \in Sessions |-> "open"]
    /\ helloN = [s \in Sessions |-> 0]
    /\ authCalls = [s \in Sessions |-> 0]
    /\ toClient = [s \in Sessions |-> <<>>]
    /\ toServer = [s \in Sessions |-> <<>>]
    /\ srvSent = [s \in Sessions |-> 0]
    /\ srvRead = [s \in Sessions |-> 0]
    /\ splices = [s \in Sessions |-> <<>>]
    /\ server = [s \in Sessions |-> NoHost]
    /\ backends = [s \in Sessions |-> {}]
    /\ sProc = "running"

\* handleConn up to the dispatch
SessSniff(s) ==
    /\ sProc = "running"
    /\ sPc[s] = "sniff"
    /\ sPc' = [sPc EXCEPT ![s] = dispatch(sniff[s])]
    /\ UNCHANGED <<sniff, script, cliSent, cliRead, cliEnd, helloN, authCalls,
                   toClient, toServer, srvSent, srvRead, splices, server,
                   backends, sProc>>
    /\ UNCHANGED <<monVars, rtVars, authVars, parseVars, moreVars>>

\* handleClient: the handshake
SessHandshake(s) ==
    /\ sProc = "running"
    /\ sPc[s] = "handshake"
    /\ IF avail(s) > 0
       THEN /\ cliRead' = [cliRead EXCEPT ![s] = @ + 1]
            /\ IF ValidateHandshake(script[s][cliRead[s] + 1])
               THEN /\ toClient' = [toClient EXCEPT ![s] = Append(@, Msg("MATCH", "4.2"))]
                    /\ sPc' = [sPc EXCEPT ![s] = "hello"]
                    /\ UNCHANGED sProc
               ELSE /\ sProc' = "fatal"
                    /\ UNCHANGED <<toClient, sPc>>
       ELSE /\ cliEnd[s] # "open"
            /\ sPc' = [sPc EXCEPT ![s] = "closed"]
            /\ UNCHANGED <<cliRead, toClient, sProc>>
    /\ UNCHANGED <<sniff, script, cliSent, cliEnd, helloN, authCalls,
                   toServer, srvSent, srvRead, splices, server, backends>>
    /\ UNCHANGED <<monVars, rtVars, authVars, parseVars, moreVars>>

\* what b.Authenticate returns: an error, or connections to the default
\* writer and to the other hosts that accept; server is one of them
AuthOutcomes ==
    {[err |-> TRUE, conns |-> {}, server |-> NoHost]} \cup
    UNION {{[err |-> FALSE, conns |-> c, server |-> h] : h \in c} :
              c \in {SessWriters, SessHosts}}

\* handleClient: the HELLO, b.Authenticate and the login SUCCESS
SessHello(s) ==
    /\ sProc = "running"
    /\ sPc[s] = "hello"
    /\ IF avail(s) > 0
       THEN \E k \in 1..avail(s), o \in AuthOutcomes :
            /\ cliRead' = [cliRead EXCEPT ![s] = @ + k]
            /\ helloN' = [helloN EXCEPT ![s] = k]
            /\ IF parsePanics(nextMsgs(s, k))
               THEN /\ sProc' = "panic"
                    /\ UNCHANGED <<authCalls, toClient, server, backends, sPc>>
               ELSE /\ authCalls' = [authCalls EXCEPT ![s] = @ + 1]
                    /\ IF o.err
                       THEN /\ sProc' = "fatal"
                            /\ UNCHANGED <<toClient, server, backends, sPc>>
                       ELSE /\ server' = [server EXCEPT ![s] = o.server]
                            /\ backends' = [backends EXCEPT ![s] = o.conns]
                            /\ toClient' = [toClient EXCEPT ![s] =
                                               Append(@, Msg("SUCCESS", "login"))]
                            /\ sPc' = [sPc EXCEPT ![s] = "loop"]
                            /\ UNCHANGED sProc
       ELSE /\ cliEnd[s] # "open"
            /\ sProc' = "fatal"
            /\ UNCHANGED <<cliRead, helloN, authCalls, toClient, server,
                           backends, sPc>>
    /\ UNCHANGED <<sniff, script, cliSent, cliEnd, toServer, srvSent, srvRead,
                   splices>>
    /\ UNCHANGED <<monVars, rtVars, authVars, parseVars, moreVars>>

\* handleClient: one turn of the loop over transactions
SessLoop(s) ==
    /\ sProc = "running"
    /\ sPc[s] = "loop"
    /\ IF avail(s) > 0
       THEN \E k \in 1..avail(s) :
            LET msgs == nextMsgs(s, k)
                msg == msgs[1]
            IN  /\ cliRead' = [cliRead EXCEPT ![s] = @ + k]
                /\ IF parsePanics(msgs)
                   THEN /\ sProc' = "panic"
                        /\ UNCHANGED <<splices, toServer, sPc>>
                   ELSE /\ splices' = [splices EXCEPT ![s] =
                               IF msg.T \in {"RUN", "BEGIN"}
                               THEN Append(@, "read") ELSE @]
                        /\ toServer' = [toServer EXCEPT ![s] = @ \o msgs]
                        /\ UNCHANGED <<sProc, sPc>>
       ELSE /\ cliEnd[s] # "open"
            /\ IF cliEnd[s] = "eof"
               THEN sPc' = [sPc EXCEPT ![s] = "closed"] /\ UNCHANGED sProc
               ELSE sProc' = "fatal" /\ UNCHANGED sPc
            /\ UNCHANGED <<cliRead, splices, toServer>>
    /\ UNCHANGED <<sniff, script, cliSent, cliEnd, helloN, authCalls,
                   toClient, srvSent, srvRead, server, backends>>
    /\ UNCHANGED <<monVars, rtVars, authVars, parseVars, moreVars>>

\* handleConn: "GET ", the rest of the request, ws.Upgrade and its response
SessUpgrade(s) ==
    /\ sProc = "running"
    /\ sPc[s] = "upgrade"
    /\ IF avail(s) > 0
       THEN /\ cliRead' = [cliRead EXCEPT ![s] = @ + 1]
            /\ IF script[s][cliRead[s] + 1] = Msg("HTTP", "upgrade")
               THEN /\ toClient' = [toClient EXCEPT ![s] =
                                       Append(@, Msg("HTTP", "101"))]
                    /\ sPc' = [sPc EXCEPT ![s] = "wsframe"]
               ELSE /\ sPc' = [sPc EXCEPT ![s] = "closed"]
                    /\ UNCHANGED toClient
       ELSE /\ cliEnd[s] # "open"
            /\ sPc' = [sPc EXCEPT ![s] = "closed"]
            /\ UNCHANGED <<cliRead, toClient>>
    /\ UNCHANGED <<sniff, script, cliSent, cliEnd, helloN, authCalls,
                   toServer, srvSent, srvRead, splices, server, backends,
                   sProc>>
    /\ UNCHANGED <<monVars, rtVars, authVars, parseVars, moreVars>>

\* handleConn: the header and the payload of one frame, then the return
SessWsFrame(s) ==
    /\ sProc = "running"
    /\ sPc[s] = "wsframe"
    /\ IF avail(s) > 0
       THEN cliRead' = [cliRead EXCEPT ![s] = @ + 1]
       ELSE cliEnd[s] # "open" /\ UNCHANGED cliRead
    /\ sPc' = [sPc EXCEPT ![s] = "closed"]
    /\ UNCHANGED <<sniff, script, cliSent, cliEnd, helloN, authCalls,
                   toClient, toServer, srvSent, srvRead, splices, server,
                   backends, sProc>>
    /\ UNCHANGED <<monVars, rtVars, authVars, parseVars, moreVars>>

\* splice: one turn of its loop; after the loop it blocks in "done <- true"
\* (serverChan has no buffer and handleClient never receives from it)
SpliceRead(s) ==
    /\ sProc = "running"
    /\ srvRead[s] < srvSent[s]
    /\ \E p \in 1..Len(splices[s]), k \in 1..(srvSent[s] - srvRead[s]) :
        LET msgs == SubSeq(responses(s), srvRead[s] + 1, srvRead[s] + k)
        IN  /\ splices[s][p] = "read"
            /\ srvRead' = [srvRead EXCEPT ![s] = @ + k]
            /\ toClient' = [toClient EXCEPT ![s] = @ \o msgs]
            /\ splices' = [splices EXCEPT ![s][p] =
                              IF finishes(msgs) THEN "send" ELSE "read"]
    /\ UNCHANGED <<sniff, script, sPc, cliSent, cliRead, cliEnd, helloN,
                   authCalls, toServer, srvSent, server, backends, sProc>>
    /\ UNCHANGED <<monVars, rtVars, authVars, parseVars, moreVars>>

\* ---- the peers ----
ClientSend(s) ==
    /\ sProc = "running"
    /\ sPc[s] # "closed"
    /\ cliEnd[s] = "open"
    /\ cliSent[s] < Len(script[s])
    /\ cliSent' = [cliSent EXCEPT ![s] = @ + 1]
    /\ UNCHANGED <<sniff, script, sPc, cliRead, cliEnd, helloN, authCalls,
                   toClient, toServer, srvSent, srvRead, splices, server,
                   backends, sProc>>
    /\ UNCHANGED <<monVars, rtVars, authVars, parseVars, moreVars>>

\* the client closes its connection, or the connection is reset
ClientEnd(s) ==
    /\ sProc = "running"
    /\ sPc[s] \notin {"sniff", "closed"}
    /\ cliEnd[s] = "open"
    /\ \E how \in {"eof", "reset"} : cliEnd' = [cliEnd EXCEPT ![s] = how]
    /\ UNCHANGED <<sniff, script, sPc, cliSent, cliRead, helloN, authCalls,
                   toClient, toServer, srvSent, srvRead, splices, server,
                   backends, sProc>>
    /\ UNCHANGED <<monVars, rtVars, authVars, parseVars, moreVars>>

BackendReply(s) ==
    /\ sProc = "running"
    /\ srvSent[s] < Len(toServer[s])
    /\ srvSent' = [srvSent EXCEPT ![s] = @ + 1]
    /\ UNCHANGED <<sniff, script, sPc, cliSent, cliRead, cliEnd, helloN,
                   authCalls, toClient, toServer, srvRead, splices, server,
                   backends, sProc>>
    /\ UNCHANGED <<monVars, rtVars, authVars, parseVars, moreVars>>

(***************************************************************************)
(* The direct connection reader: NewDirectConn, its goroutine and          *)
(* readMessage.  The scratch buffer has DcBufLen bytes (1024*128 in the    *)
(* code); the inputs include a message that is longer than the buffer.     *)
(* conn.Read(p) returns any number of the unread bytes from 1 to len(p),   *)
(* and the error of the stream when no byte is left.                       *)
(***************************************************************************)
DcBufLen == 9

UnderReadLimit == 5

Min(a, b) == IF a < b THEN a ELSE b

\* RECORD [1], SUCCESS {} in one chunk and cut in two, and a message of
\* ten bytes
DcFrames ==
    {<<<<177, 113, 145, 1>>>>, <<<<177, 112, 160>>>>,
     <<<<177>>, <<112, 160>>>>, <<<<176, 2>>, <<176, 2>>>>}

DcStreams == UNION {[1..k -> DcFrames] : k \in 0..MaxFrames}

blank(n) == [i \in 1..n |-> 255]

\* copy(buf[pos:], bytes)
writeAt(buf, pos, bytes) ==
    [i \in 1..Len(buf) |->
        IF i > pos /\ i <= pos + Len(bytes) THEN bytes[i - pos] ELSE buf[i]]

scrubNone(buf, pos) == buf

\* readMessage: for i := 0; i < pos; i++ { c.buf[i] = 0xff }
scrub(buf, pos) == [i \in 1..Len(buf) |-> IF i <= pos THEN 255 ELSE buf[i]]

onErrorLeaveOpen(kind) == "open"

\* the goroutine of NewDirectConn on an error of readMessage
onError(kind) == IF kind = "eof" THEN "closed" ELSE "open"

NoMessage == [T |-> "NOP", Data |-> <<>>]

DcInit ==
    /\ dcFrames \in DcStreams
    /\ dcStream = encodeStream(dcFrames)
    /\ dcEnd \in {"eof", "error"}
    /\ dcBuf = blank(DcBufLen)
    /\ dcPos = 0
    /\ dcUnder = 0
    /\ dcHeld = 0
    /\ dcEndOfData = 0
    /\ dcPc = "header"
    /\ dcMsg = NoMessage
    /\ dcReturned = <<>>
    /\ dcRecv = <<>>
    /\ dcChan = "open"
    /\ dcConsumer = "ranging"

\* readMessage returns err; the goroutine closes msgchan on io.EOF
dcFail ==
    /\ dcPc' = IF dcEnd = "eof" THEN "hungup" ELSE "failed"
    /\ dcChan' = onError(dcEnd)
    /\ UNCHANGED <<dcStream, dcBuf, dcPos, dcUnder, dcHeld, dcEndOfData,
                   dcMsg, dcReturned>>

dcPanic ==
    /\ dcPc' = "panicked"
    /\ UNCHANGED <<dcStream, dcBuf, dcPos, dcUnder, dcHeld, dcEndOfData,
                   dcMsg, dcReturned, dcChan>>

\* readMessage: the read of a chunk length, and the return on 00 00
DcReadHeader ==
    /\ dcPc = "header"
    /\ IF dcPos + 2 > DcBufLen THEN dcPanic
       ELSE IF dcStream = <<>> THEN dcFail
       ELSE \E n \in 1..Min(2, Len(dcStream)) :
            LET buf == writeAt(dcBuf, dcPos, SubSeq(dcStream, 1, n))
                msglen == Uint16(slice(buf, dcPos, dcPos + 2))
                pos == dcPos + n
            IN  /\ dcStream' = SubSeq(dcStream, n + 1, Len(dcStream))
                /\ dcChan' = dcChan
                /\ IF n < 2
                   THEN /\ dcBuf' = buf
                        /\ dcUnder' = dcUnder + 1
                        /\ dcHeld' = n
                        /\ dcPc' = IF dcUnder + 1 > UnderReadLimit
                                   THEN "panicked" ELSE "header"
                        /\ UNCHANGED <<dcPos, dcEndOfData, dcMsg, dcReturned>>
                   ELSE IF msglen < 1
                   THEN /\ dcMsg' = [T |-> IdentifyType(slice(buf, 0, pos)),
                                     Data |-> slice(buf, 0, pos)]
                        /\ dcReturned' = Append(dcReturned, dcMsg')
                        /\ dcBuf' = scrub(buf, pos)
                        /\ dcPos' = 0
                        /\ dcUnder' = 0
                        /\ dcHeld' = 0
                        /\ dcEndOfData' = 0
                        /\ dcPc' = "send"
                   ELSE /\ dcBuf' = buf
                        /\ dcPos' = pos
                        /\ dcHeld' = 0
                        /\ dcEndOfData' = pos + msglen
                        /\ dcPc' = "payload"
                        /\ UNCHANGED <<dcUnder, dcMsg, dcReturned>>
    /\ UNCHANGED <<dcFrames, dcEnd, dcRecv, dcConsumer>>
    /\ UNCHANGED <<monVars, rtVars, authVars, parseVars, sessVars, wsVars,
                   tmVars, bkVars, spVars>>

\* readMessage: one read of the inner loop over the chunk body
DcReadPayload ==
    /\ dcPc = "payload"
    /\ IF dcEndOfData > DcBufLen THEN dcPanic
       ELSE IF dcStream = <<>> THEN dcFail
       ELSE \E n \in 1..Min(dcEndOfData - dcPos, Len(dcStream)) :
            /\ dcStream' = SubSeq(dcStream, n + 1, Len(dcStream))
            /\ dcBuf' = writeAt(dcBuf, dcPos, SubSeq(dcStream, 1, n))
            /\ dcPos' = dcPos + n
            /\ dcPc' = IF dcPos + n < dcEndOfData THEN "payload" ELSE "header"
            /\ UNCHANGED <<dcUnder, dcHeld, dcEndOfData, dcMsg, dcReturned,
                           dcChan>>
    /\ UNCHANGED <<dcFrames, dcEnd, dcRecv, dcConsumer>>
    /\ UNCHANGED <<monVars, rtVars, authVars, parseVars, sessVars, wsVars,
                   tmVars, bkVars, spVars>>

\* msgchan <- message, received by the consumer that ranges over R()
DcDeliver ==
    /\ dcPc = "send"
    /\ dcConsumer = "ranging"
    /\ dcRecv' = Append(dcRecv, dcMsg)
    /\ dcMsg' = NoMessage
    /\ dcPc' = "header"
    /\ UNCHANGED <<dcFrames, dcStream, dcEnd, dcBuf, dcPos, dcUnder, dcHeld,
                   dcEndOfData, dcReturned, dcChan, dcConsumer>>
    /\ UNCHANGED <<monVars, rtVars, authVars, parseVars, sessVars, wsVars,
                   tmVars, bkVars, spVars>>

\* the range over R() ends when the channel is closed
DcRangeEnd ==
    /\ dcConsumer = "ranging"
    /\ dcChan = "closed"
    /\ dcConsumer' = "done"
    /\ UNCHANGED <<dcFrames, dcStream, dcEnd, dcBuf, dcPos, dcUnder, dcHeld,
                   dcEndOfData, dcPc, dcMsg, dcReturned, dcRecv, dcChan>>
    /\ UNCHANGED <<monVars, rtVars, authVars, parseVars, sessVars, wsVars,
                   tmVars, bkVars, spVars>>

(***************************************************************************)
(* The WebSocket reader: one call of WsConn.readMessages on one frame.     *)
(* The buffer has WsBufLen bytes (1024*32 in the code) and is all 0xFF     *)
(* before the call, as NewWsConn and every earlier call leave it.          *)
(***************************************************************************)
WsBufLen == 16

ChunkedMsg == "CHUNKED"

RECURSIVE xorBits(_, _, _)
xorBits(a, b, k) ==
    IF k = 0 THEN 0
    ELSE (((a % 2) + (b % 2)) % 2) + 2 * xorBits(a \div 2, b \div 2, k - 1)

\* ws.Cipher(payload, mask, 0)
Cipher(payload, mask) ==
    [i \in 1..Len(payload) |-> xorBits(payload[i], mask[((i - 1) % 4) + 1], 8)]

\* the parts of a frame: a chunk, followed by 00 00 (last) or not
WsData == {<<177, 112, 160>>, <<177, 16>>, <<160>>}

WsPartSet == [data : WsData, last : BOOLEAN]

WsPayloads == UNION {[1..k -> WsPartSet] : k \in 0..MaxFrames}

encodePart(p) == encodeChunk(p.data) \o (IF p.last THEN <<0, 0>> ELSE <<>>)

encodeParts(ps) == Concat([k \in 1..Len(ps) |-> encodePart(ps[k])])

WsHeaders ==
    {[Fin |-> TRUE, OpCode |-> "binary"], [Fin |-> FALSE, OpCode |-> "binary"],
     [Fin |-> TRUE, OpCode |-> "close"], [Fin |-> TRUE, OpCode |-> "ping"]}

WsMasks == {<<>>, <<55, 250, 33, 61>>}

\* the bytes of the payload as they are on the stream
wsWire == IF wsMask = <<>> THEN encodeParts(wsParts)
          ELSE Cipher(encodeParts(wsParts), wsMask)

\* the loop of readMessages over c.buf[0 : length]
RECURSIVE wsLoop(_, _, _, _)
wsLoop(buf, length, pos, messages) ==
    IF pos >= length
    THEN [kind |-> "ok", messages |-> messages]
    ELSE IF pos + 2 > Len(buf)
    THEN [kind |-> "panic", messages |-> <<>>]
    ELSE LET msglen == Uint16(slice(buf, pos, pos + 2))
         IN  IF pos + msglen + 4 > Len(buf)
             THEN [kind |-> "panic", messages |-> <<>>]
             ELSE LET chunking == slice(buf, pos + msglen + 2, pos + msglen + 4)
                                      # <<0, 0>>
                      sizeOfMsg == IF chunking THEN msglen + 2 ELSE msglen + 4
                      t == IdentifyType(slice(buf, pos, Len(buf)))
                      msgtype == IF t = "?UNKNOWN?" THEN ChunkedMsg ELSE t
                 IN  wsLoop(buf, length, pos + sizeOfMsg,
                            Append(messages,
                                   [T |-> msgtype,
                                    Data |-> slice(buf, pos, pos + sizeOfMsg)]))

\* what c.buf[:n] holds after the read of the payload and ws.Cipher
wsClear(wire, mask, n) ==
    IF mask = <<>> THEN SubSeq(wire, 1, n) ELSE Cipher(SubSeq(wire, 1, n), mask)

\* readMessages on a frame of which conn.Read returns the first n bytes
readMessages(header, wire, mask, n) ==
    IF ~header.Fin THEN [kind |-> "panic", messages |-> <<>>]
    ELSE IF header.OpCode = "close" THEN [kind |-> "eof", messages |-> <<>>]
    ELSE IF header.OpCode # "binary" THEN [kind |-> "panic", messages |-> <<>>]
    ELSE IF Len(wire) = 0 THEN [kind |-> "error", messages |-> <<>>]
    ELSE IF Len(wire) > WsBufLen THEN [kind |-> "panic", messages |-> <<>>]
    ELSE wsLoop(writeAt(blank(WsBufLen), 0, wsClear(wire, mask, n)),
                Len(wire), 0, <<>>)

\* the frame reaches the loop over the payload
wsInLoop ==
    /\ wsHeader = [Fin |-> TRUE, OpCode |-> "binary"]
    /\ Len(wsWire) \in 1..WsBufLen

WsInit ==
    /\ wsParts \in WsPayloads
    /\ wsMask \in WsMasks
    /\ wsHeader \in WsHeaders
    /\ wsN \in IF wsParts = <<>> THEN {0} ELSE 1..Len(encodeParts(wsParts))
    /\ wsBuf = blank(WsBufLen)
    /\ wsPc = "call"
    /\ wsOut = <<>>

WsReturn ==
    /\ wsPc = "call"
    /\ LET r == readMessages(wsHeader, wsWire, wsMask, wsN)
       IN  /\ r.kind # "panic"
           /\ wsOut' = r.messages
           /\ wsPc' = CASE r.kind = "ok" -> "returned"
                        [] r.kind = "eof" -> "hungup"
                        [] OTHER -> "failed"
           \* for i := 0; i < n; i++ { c.buf[i] = 0xff }
           /\ wsBuf' = IF r.kind = "ok"
                       THEN scrub(writeAt(wsBuf, 0,
                                      wsClear(wsWire, wsMask, wsN)), wsN)
                       ELSE wsBuf
    /\ UNCHANGED <<wsParts, wsMask, wsHeader, wsN>>
    /\ UNCHANGED <<monVars, rtVars, authVars, parseVars, sessVars, dcVars,
                   tmVars, bkVars, spVars>>

WsPanic ==
    /\ wsPc = "call"
    /\ readMessages(wsHeader, wsWire, wsMask, wsN).kind = "panic"
    /\ wsPc' = "panicked"
    /\ wsBuf' = IF wsInLoop
                THEN writeAt(wsBuf, 0, wsClear(wsWire, wsMask, wsN))
                ELSE wsBuf
    /\ UNCHANGED <<wsParts, wsMask, wsHeader, wsN, wsOut>>
    /\ UNCHANGED <<monVars, rtVars, authVars, parseVars, sessVars, dcVars,
                   tmVars, bkVars, spVars>>

(***************************************************************************)
(* The PackStream reader (bolt.ParseTinyMap and the parsers it calls)      *)
(***************************************************************************)
\* the most members of the tiny-maps that are decoded
MaxMembers == 2

\* a Go value held in an interface{}: an int, a string (its bytes), a
\* []interface{} or a map[string]interface{} (a function of its keys)
IntV(n) == [k |-> "int", v |-> <<n>>]

StringV(bytes) == [k |-> "string", v |-> bytes]

ArrayV(seq) == [k |-> "array", v |-> seq]

MapV(m) == [k |-> "map", v |-> m]

NilV == [k |-> "nil", v |-> <<>>]

\* result[name] = val
mapPut(m, name, val) ==
    [x \in (DOMAIN m) \cup {name} |-> IF x = name THEN val ELSE m[x]]

\* a parser's return values; err is "nil", "error", or "panic" when the call
\* does not return
Decoded(val, n, err) == [val |-> val, n |-> n, err |-> err]

NoDecode == Decoded(NilV, 0, "none")

DecodePanic == Decoded(NilV, 0, "panic")

ParseTinyInt(b) ==
    IF b > 127 THEN Decoded(0, 0, "error") ELSE Decoded(b, 0, "nil")

\* ParseTinyString counting the bytes of the text only
ParseTinyStringNoPrefix(buf) ==
    IF Len(buf) = 0 \/ buf[1] \div 16 # 8
    THEN Decoded(<<>>, 0, "error")
    ELSE LET size == buf[1] % 16
         IN  IF size = 0 THEN Decoded(<<>>, 1, "nil")
             ELSE IF size + 1 > Len(buf) THEN DecodePanic
             ELSE Decoded(slice(buf, 1, size + 1), size, "nil")

ParseTinyString(buf) ==
    IF Len(buf) = 0 \/ buf[1] \div 16 # 8
    THEN Decoded(<<>>, 0, "error")
    ELSE LET size == buf[1] % 16
         IN  IF size = 0 THEN Decoded(<<>>, 1, "nil")
             ELSE IF size + 1 > Len(buf) THEN DecodePanic
             ELSE Decoded(slice(buf, 1, size + 1), size + 1, "nil")

\* binary.BigEndian.Uint64 of the last eight bytes
RECURSIVE bigEndian(_)
bigEndian(bytes) ==
    IF bytes = <<>> THEN 0
    ELSE bigEndian(SubSeq(bytes, 1, Len(bytes) - 1)) * 256 + bytes[Len(bytes)]

Uint64(sizeBytes) ==
    LET padded == <<0, 0, 0, 0, 0, 0, 0, 0>> \o sizeBytes
    IN  bigEndian(SubSeq(padded, Len(padded) - 7, Len(padded)))

ParseString(buf) ==
    IF Len(buf) < 1 \/ buf[1] \div 16 # 13
    THEN Decoded(<<>>, 0, "error")
    ELSE LET readAhead == 2 ^ (buf[1] % 16)
             pos == 1 + readAhead
         IN  IF pos > Len(buf) THEN DecodePanic
             ELSE LET size == Uint64(slice(buf, 1, pos))
                  IN  IF pos + size > Len(buf) THEN DecodePanic
                      ELSE Decoded(slice(buf, pos, pos + size), pos + size,
                                   "nil")

\* the loop of ParseTinyArray from member i on
RECURSIVE arrayLoop(_, _, _, _, _)
arrayLoop(buf, size, i, pos, array) ==
    IF i = size THEN Decoded(array, pos, "nil")
    ELSE IF pos >= Len(buf) THEN DecodePanic
    ELSE LET memberType == buf[pos + 1] \div 16
             rest == slice(buf, pos, Len(buf))
             r == CASE memberType \in 0..7 -> ParseTinyInt(buf[pos + 1])
                    [] memberType = 8 -> ParseTinyString(rest)
                    [] memberType = 13 -> ParseString(rest)
                    [] OTHER -> Decoded(<<>>, 0, "error")
             val == IF memberType \in 0..7 THEN IntV(r.val)
                    ELSE StringV(r.val)
             n == IF memberType \in 0..7 THEN 1 ELSE r.n
         IN  IF r.err = "panic" THEN DecodePanic
             ELSE IF r.err = "error" THEN Decoded(array, pos, "error")
             ELSE arrayLoop(buf, size, i + 1, pos + n,
                            [array EXCEPT ![i + 1] = val])

ParseTinyArray(buf) ==
    IF Len(buf) = 0 THEN DecodePanic
    ELSE IF buf[1] \div 16 # 9 THEN Decoded(<<>>, 0, "error")
    ELSE LET size == buf[1] % 16
         IN  arrayLoop(buf, size, 0, 1, [j \in 1..size |-> NilV])

RECURSIVE ParseTinyMap(_)
\* the loop of ParseTinyMap from member i on
RECURSIVE mapLoop(_, _, _, _, _)
mapLoop(buf, numMembers, i, pos0, result) ==
    IF i = numMembers THEN Decoded(result, pos0, "nil")
    ELSE IF pos0 > Len(buf) THEN DecodePanic
    ELSE LET name == ParseTinyString(slice(buf, pos0, Len(buf)))
             pos == pos0 + name.n
         IN  IF name.err # "nil" THEN DecodePanic
             ELSE IF pos >= Len(buf) THEN DecodePanic
             ELSE LET t == buf[pos + 1] \div 16
                      rest == slice(buf, pos, Len(buf))
                      r == CASE t \in 0..7 -> ParseTinyInt(buf[pos + 1])
                             [] t = 8 -> ParseTinyString(rest)
                             [] t = 9 -> ParseTinyArray(rest)
                             [] t = 13 -> ParseString(rest)
                             [] t = 10 -> ParseTinyMap(rest)
                             [] OTHER -> Decoded(<<>>, 0, "error")
                      val == CASE t \in 0..7 -> IntV(r.val)
                               [] t = 9 -> ArrayV(r.val)
                               [] t = 10 -> MapV(r.val)
                               [] OTHER -> StringV(r.val)
                      n == IF t \in 0..7 THEN 1 ELSE r.n
                  IN  IF t \notin (0..10) \cup {13}
                      THEN Decoded(<<>>, pos, "error")
                      ELSE IF r.err # "nil" THEN DecodePanic
                      ELSE mapLoop(buf, numMembers, i + 1, pos + n,
                                   mapPut(result, name.val, val))

\* buf is never nil here: it is an encoding or a slice of one
ParseTinyMap(buf) ==
    IF Len(buf) < 1 THEN Decoded(<<>>, 0, "error")
    ELSE IF buf[1] \div 16 # 10 THEN DecodePanic
    ELSE mapLoop(buf, buf[1] % 16, 0, 1, <<>>)

\* ---- the values that are encoded ----
\* a value is written as a tiny-int, a tiny-string, a string whose size
\* takes 2^w bytes, a tiny-array or a tiny-map
TinyInt(n) == [t |-> "tiny-int", w |-> 0, v |-> <<n>>]

TinyString(bytes) == [t |-> "tiny-string", w |-> 0, v |-> bytes]

String(w, bytes) == [t |-> "string", w |-> w, v |-> bytes]

TinyArray(seq) == [t |-> "tiny-array", w |-> 0, v |-> seq]

TinyMap(members) == [t |-> "tiny-map", w |-> 0, v |-> members]

\* n as `width` bytes, most significant first
RECURSIVE sizeBytes(_, _)
sizeBytes(n, width) ==
    IF width = 0 THEN <<>>
    ELSE sizeBytes(n \div 256, width - 1) \o <<n % 256>>

RECURSIVE encode(_)
RECURSIVE encodeAll(_)
RECURSIVE encodeMembers(_)
encode(d) ==
    CASE d.t = "tiny-int" -> d.v
      [] d.t = "tiny-string" -> <<128 + Len(d.v)>> \o d.v
      [] d.t = "string" ->
            <<208 + d.w>> \o sizeBytes(Len(d.v), 2 ^ d.w) \o d.v
      [] d.t = "tiny-array" -> <<144 + Len(d.v)>> \o encodeAll(d.v)
      [] d.t = "tiny-map" -> <<160 + Len(d.v)>> \o encodeMembers(d.v)

encodeAll(ds) ==
    IF ds = <<>> THEN <<>> ELSE encode(Head(ds)) \o encodeAll(Tail(ds))

encodeMembers(ms) ==
    IF ms = <<>> THEN <<>>
    ELSE encode(TinyString(Head(ms)[1])) \o encode(Head(ms)[2])
            \o encodeMembers(Tail(ms))

\* the Go value a written value stands for
RECURSIVE valueOf(_)
RECURSIVE mapOf(_)
valueOf(d) ==
    CASE d.t = "tiny-int" -> IntV(d.v[1])
      [] d.t \in {"tiny-string", "string"} -> StringV(d.v)
      [] d.t = "tiny-array" -> ArrayV([j \in 1..Len(d.v) |-> valueOf(d.v[j])])
      [] d.t = "tiny-map" -> MapV(mapOf(d.v))

mapOf(ms) ==
    IF ms = <<>> THEN <<>>
    ELSE mapPut(mapOf(SubSeq(ms, 1, Len(ms) - 1)), ms[Len(ms)][1],
                valueOf(ms[Len(ms)][2]))

TmKeys == {<<>>, <<97>>, <<98, 109>>}

TmScalars ==
    {TinyInt(1), TinyInt(127), TinyString(<<>>), TinyString(<<120>>),
     String(0, <<121>>), String(1, <<121, 122>>), String(2, <<>>)}

TmMembers == {TinyInt(127), TinyString(<<120>>), String(0, <<121>>)}

TmArrays ==
    {TinyArray(<<>>)} \cup {TinyArray(<<a>>) : a \in TmMembers}
        \cup UNION {{TinyArray(<<a, b>>) : b \in TmMembers \ {a}} :
                     a \in TmMembers}

TmNested ==
    {TinyMap(<<>>)}
        \cup {TinyMap(<<<<<<97>>, x>>>>) :
                x \in {TinyInt(1), TinyString(<<120>>),
                       TinyArray(<<TinyInt(127)>>), TinyMap(<<>>)}}

TmValues == TmScalars \cup TmArrays \cup TmNested

\* the member lists of at most MaxMembers members with distinct keys
TinyMaps ==
    UNION {{ms \in [1..k -> TmKeys \X TmValues] :
              \A i, j \in 1..k : i # j => ms[i][1] # ms[j][1]} :
           k \in 0..MaxMembers}

\* the bytes handed to ParseTinyMap
tmBuf ==
    LET enc == encode(TinyMap(tmMap))
    IN  SubSeq(enc, 1, Len(enc) - tmCut)

TmInit ==
    /\ tmMap \in TinyMaps
    /\ tmCut \in {0, 1}
    /\ tmPc = "call"
    /\ tmOut = NoDecode

TmReturn ==
    /\ tmPc = "call"
    /\ LET r == ParseTinyMap(tmBuf)
       IN  /\ r.err # "panic"
           /\ tmOut' = r
    /\ tmPc' = "returned"
    /\ UNCHANGED <<tmMap, tmCut>>
    /\ UNCHANGED <<monVars, rtVars, authVars, parseVars, sessVars, dcVars,
                   wsVars, bkVars, spVars>>

TmPanic ==
    /\ tmPc = "call"
    /\ ParseTinyMap(tmBuf).err = "panic"
    /\ tmPc' = "panicked"
    /\ UNCHANGED <<tmMap, tmCut, tmOut>>
    /\ UNCHANGED <<monVars, rtVars, authVars, parseVars, sessVars, dcVars,
                   wsVars, bkVars, spVars>>

(***************************************************************************)
(* Backend.RoutingTable called by the sessions of concurrent clients,      *)
(* beside a monitor that refreshes at every tick of its ticker.  A         *)
(* snapshot is kept as its number, its CreatedAt and its Ttl.              *)
(***************************************************************************)
\* the latest second the calls are followed to
BkMaxTime == 125

\* "time.After(60 * time.Second)"
RtTimeout == 60

BkSessions == {"s1", "s2"}

BkTtls == {30, 62}

Table(id, at, ttl) == [id |-> id, CreatedAt |-> at, Ttl |-> ttl]

NoTable == Table(0, 0, 0)

\* RoutingTable.Expired
Expired(rt, now) == now - rt.CreatedAt > rt.Ttl

\* "case rt := <-b.monitor.C"
received(slot) == Head(slot)

NoCall == [pc |-> "idle", left |-> 0, old |-> 0, rt |-> NoTable, got |-> 0]

\* NewMonitor has sent the first snapshot and NewBackend has received it
BkInit ==
    /\ bkTtl \in BkTtls
    /\ bkClock = 0
    /\ bkTickLeft = bkTtl
    /\ bkNextId = 2
    /\ bkSlot = <<>>
    /\ bkCached = Table(1, 0, bkTtl)
    /\ bkCalls = [s \in BkSessions |-> NoCall]
    /\ bkProc = "running"

\* the monitor's ticker fires: a new snapshot replaces what is in the slot
BkRefresh ==
    /\ bkProc = "running"
    /\ bkTickLeft = 0
    /\ bkSlot' = Append(drain(bkSlot), Table(bkNextId, timeNow(bkClock), bkTtl))
    /\ bkNextId' = bkNextId + 1
    /\ bkTickLeft' = bkTtl
    /\ UNCHANGED <<bkTtl, bkClock, bkCached, bkCalls, bkProc>>
    /\ UNCHANGED <<monVars, rtVars, authVars, parseVars, sessVars, dcVars,
                   wsVars, tmVars, spVars>>

\* a session enters RoutingTable(): "if b.routingTable.Expired()"
BkCall(s) ==
    /\ bkProc = "running"
    /\ bkCalls[s].pc = "idle"
    /\ bkCalls' = [bkCalls EXCEPT ![s] =
                      IF Expired(bkCached, bkClock)
                      THEN [@ EXCEPT !.pc = "select", !.left = RtTimeout,
                                     !.old = bkCached.id]
                      ELSE [@ EXCEPT !.pc = "return"]]
    /\ UNCHANGED <<bkTtl, bkClock, bkTickLeft, bkNextId, bkSlot, bkCached,
                   bkProc>>
    /\ UNCHANGED <<monVars, rtVars, authVars, parseVars, sessVars, dcVars,
                   wsVars, tmVars, spVars>>

\* "case rt := <-b.monitor.C"
BkReceive(s) ==
    /\ bkProc = "running"
    /\ bkCalls[s].pc = "select"
    /\ Len(bkSlot) > 0
    /\ bkCalls' = [bkCalls EXCEPT ![s].pc = "assign",
                                  ![s].rt = received(bkSlot)]
    /\ bkSlot' = Tail(bkSlot)
    /\ UNCHANGED <<bkTtl, bkClock, bkTickLeft, bkNextId, bkCached, bkProc>>
    /\ UNCHANGED <<monVars, rtVars, authVars, parseVars, sessVars, dcVars,
                   wsVars, tmVars, spVars>>

\* "b.routingTable = rt"
BkAssign(s) ==
    /\ bkProc = "running"
    /\ bkCalls[s].pc = "assign"
    /\ bkCached' = bkCalls[s].rt
    /\ bkCalls' = [bkCalls EXCEPT ![s].pc = "return"]
    /\ UNCHANGED <<bkTtl, bkClock, bkTickLeft, bkNextId, bkSlot, bkProc>>
    /\ UNCHANGED <<monVars, rtVars, authVars, parseVars, sessVars, dcVars,
                   wsVars, tmVars, spVars>>

\* "return b.routingTable"
BkReturn(s) ==
    /\ bkProc = "running"
    /\ bkCalls[s].pc = "return"
    /\ bkCalls' = [bkCalls EXCEPT ![s].pc = "returned", ![s].got = bkCached.id]
    /\ UNCHANGED <<bkTtl, bkClock, bkTickLeft, bkNextId, bkSlot, bkCached,
                   bkProc>>
    /\ UNCHANGED <<monVars, rtVars, authVars, parseVars, sessVars, dcVars,
                   wsVars, tmVars, spVars>>

\* "case <-time.After(60 * time.Second)": log.Fatal
BkTimeout(s) ==
    /\ bkProc = "running"
    /\ bkCalls[s].pc = "select"
    /\ bkCalls[s].left = 0
    /\ bkProc' = "fatalTimeout"
    /\ UNCHANGED <<bkTtl, bkClock, bkTickLeft, bkNextId, bkSlot, bkCached,
                   bkCalls>>
    /\ UNCHANGED <<monVars, rtVars, authVars, parseVars, sessVars, dcVars,
                   wsVars, tmVars, spVars>>

\* a step that is due now: time does not pass before it is taken
bkDue ==
    \/ bkTickLeft = 0
    \/ \E s \in BkSessions :
          \/ bkCalls[s].pc \in {"assign", "return"}
          \/ bkCalls[s].pc = "select" /\ (Len(bkSlot) > 0 \/ bkCalls[s].left = 0)

\* one second passes
BkAdvance ==
    /\ bkProc = "running"
    /\ bkClock < BkMaxTime
    /\ ~bkDue
    /\ bkClock' = bkClock + 1
    /\ bkTickLeft' = bkTickLeft - 1
    /\ bkCalls' = [s \in BkSessions |->
                      IF bkCalls[s].pc = "select"
                      THEN [bkCalls[s] EXCEPT !.left = @ - 1]
                      ELSE bkCalls[s]]
    /\ UNCHANGED <<bkTtl, bkNextId, bkSlot, bkCached, bkProc>>
    /\ UNCHANGED <<monVars, rtVars, authVars, parseVars, sessVars, dcVars,
                   wsVars, tmVars, spVars>>

(***************************************************************************)
(* splice on the bytes the backend sends: r.Read(buf) returns any number   *)
(* of the unread bytes from 1 to len(buf), whatever the frames are.  buf    *)
(* has SpBufLen bytes (4*1024 in the code) and is used again by every read. *)
(***************************************************************************)
SpBufLen == 32

\* "bookmark"
BookmarkKey == <<98, 111, 111, 107, 109, 97, 114, 107>>

\* the bodies of RECORD [1], SUCCESS {}, SUCCESS {bookmark: "x"}, GOODBYE
SpOngoing == {<<177, 113, 145, 1>>, <<177, 112, 160>>}

SpTerminal ==
    {<<177, 112>> \o encode(TinyMap(<<<<BookmarkKey, TinyString(<<120>>)>>>>)),
     <<176, 2>>}

\* a stream: at most MaxFrames - 1 messages, then a terminal message
SpStreams ==
    UNION {{fs \o <<<<t>>>> : fs \in [1..k -> {<<d>> : d \in SpOngoing}],
                              t \in SpTerminal} :
           k \in 0..(MaxFrames - 1)}

\* "switch message.T" in splice: "finish", "go on", or "panic"
inspect(message) ==
    IF message.T = "GOODBYE" THEN "finish"
    ELSE IF message.T # "SUCCESS" THEN "go on"
    ELSE LET success == ParseTinyMap(slice(message.Data, 4, Len(message.Data)))
         IN  IF success.err # "nil" THEN "panic"
             ELSE IF BookmarkKey \in DOMAIN success.val THEN "finish"
             ELSE "go on"

\* one turn of the loop of splice on the n bytes read into buf
spliceTurn(buf, n) ==
    LET r == Parse(buf, n)
        seen == {inspect(r.messages[k]) : k \in 1..Len(r.messages)}
    IN  IF r.kind = "panic" \/ "panic" \in seen THEN "panic"
        ELSE IF "finish" \in seen THEN "finish"
        ELSE "go on"

SpInit ==
    /\ spFrames \in SpStreams
    /\ spStream = encodeStream(spFrames)
    /\ spBuf = [i \in 1..SpBufLen |-> 0]
    /\ spWritten = 0
    /\ spPc = "read"

\* a turn of the loop that ends with w.Write(buf[:n])
SpRead ==
    /\ spPc = "read"
    /\ \E n \in 1..Min(Len(spStream), SpBufLen) :
          LET buf == writeAt(spBuf, 0, SubSeq(spStream, 1, n))
          IN  /\ spliceTurn(buf, n) # "panic"
              /\ spBuf' = buf
              /\ spStream' = SubSeq(spStream, n + 1, Len(spStream))
              /\ spWritten' = spWritten + n
              /\ spPc' = IF spliceTurn(buf, n) = "finish" THEN "done"
                         ELSE "read"
    /\ UNCHANGED spFrames
    /\ UNCHANGED <<monVars, rtVars, authVars, parseVars, sessVars, dcVars,
                   wsVars, tmVars, bkVars>>

\* a turn of the loop that panics, in Parse or on a SUCCESS that is no map
SpPanic ==
    /\ spPc = "read"
    /\ \E n \in 1..Min(Len(spStream), SpBufLen) :
          LET buf == writeAt(spBuf, 0, SubSeq(spStream, 1, n))
          IN  /\ spliceTurn(buf, n) = "panic"
              /\ spBuf' = buf
              /\ spStream' = SubSeq(spStream, n + 1, Len(spStream))
    /\ spPc' = "panicked"
    /\ UNCHANGED <<spFrames, spWritten>>
    /\ UNCHANGED <<monVars, rtVars, authVars, parseVars, sessVars, dcVars,
                   wsVars, tmVars, bkVars>>

(***************************************************************************)
(* The specifications                                                      *)
(***************************************************************************)
RtIdle == qNames = <<>> /\ qRows = <<>> /\ rtPc = "idle" /\ rtOut = NoRt

AuthIdle ==
    /\ aHosts = {}
    /\ aWriter = NoHost
    /\ accepts = {}
    /\ aPc = "idle"
    /\ attempts = <<>>
    /\ toVisit = {}
    /\ hostVar = NoHost
    /\ tasks = <<>>
    /\ chanP = <<>>
    /\ conns = <<>>

MonIdle ==
    /\ chanC = <<>>
    /\ chanH = 0
    /\ monPc = "idle"
    /\ outerRt = NoSnapshot
    /\ innerRt = NoSnapshot
    /\ tickerOn = FALSE
    /\ tickerPeriod = 0
    /\ tickerLeft = 0
    /\ tickPending = FALSE
    /\ wdLeft = 0
    /\ proc = "idle"
    /\ clock = 0
    /\ nextId = 0
    /\ published = 0
    /\ halted = FALSE
    /\ recvLog = <<>>

ParseIdle ==
    /\ pFrames = <<>>
    /\ pTrunc = <<>>
    /\ pSpare = <<>>
    /\ pPc = "idle"
    /\ pOut = NoResult

SessIdle ==
    /\ sniff = <<>>
    /\ script = <<>>
    /\ sPc = <<>>
    /\ cliSent = <<>>
    /\ cliRead = <<>>
    /\ cliEnd = <<>>
    /\ helloN = <<>>
    /\ authCalls = <<>>
    /\ toClient = <<>>
    /\ toServer = <<>>
    /\ srvSent = <<>>
    /\ srvRead = <<>>
    /\ splices = <<>>
    /\ server = <<>>
    /\ backends = <<>>
    /\ sProc = "idle"

DcIdle ==
    /\ dcFrames = <<>>
    /\ dcStream = <<>>
    /\ dcEnd = "idle"
    /\ dcBuf = <<>>
    /\ dcPos = 0
    /\ dcUnder = 0
    /\ dcHeld = 0
    /\ dcEndOfData = 0
    /\ dcPc = "idle"
    /\ dcMsg = NoMessage
    /\ dcReturned = <<>>
    /\ dcRecv = <<>>
    /\ dcChan = "idle"
    /\ dcConsumer = "idle"

WsIdle ==
    /\ wsParts = <<>>
    /\ wsMask = <<>>
    /\ wsHeader = [Fin |-> FALSE, OpCode |-> "idle"]
    /\ wsN = 0
    /\ wsBuf = <<>>
    /\ wsPc = "idle"
    /\ wsOut = <<>>

TmIdle ==
    /\ tmMap = <<>>
    /\ tmCut = 0
    /\ tmPc = "idle"
    /\ tmOut = NoDecode

BkIdle ==
    /\ bkTtl = 0
    /\ bkClock = 0
    /\ bkTickLeft = 0
    /\ bkNextId = 0
    /\ bkSlot = <<>>
    /\ bkCached = NoTable
    /\ bkCalls = <<>>
    /\ bkProc = "idle"

SpIdle ==
    /\ spFrames = <<>>
    /\ spStream = <<>>
    /\ spBuf = <<>>
    /\ spWritten = 0
    /\ spPc = "idle"

MoreIdle == DcIdle /\ WsIdle /\ TmIdle /\ BkIdle /\ SpIdle

AllIdle == MonIdle /\ RtIdle /\ AuthIdle /\ ParseIdle /\ SessIdle

\* the routing monitor, Monitor.Stop and the consumers of Monitor.C
Init == MonInit /\ RtIdle /\ AuthIdle /\ ParseIdle /\ SessIdle /\ MoreIdle

MonNext ==
    \/ MonNew
    \/ MonNewErr
    \/ MonStart
    \/ MonTick
    \/ MonQueryOk
    \/ MonQueryErr
    \/ MonReset
    \/ MonDrain
    \/ MonSend
    \/ MonHalt
    \/ MonWatchdog
    \/ Stop
    \/ \E c \in Consumers : Recv(c)
    \/ Advance

Next == MonNext

Spec == Init /\ [][Next]_vars

\* getNewRoutingTable on every query result within the bounds
InitRT == RtInit /\ MonIdle /\ AuthIdle /\ ParseIdle /\ SessIdle /\ MoreIdle

NextRT == RtBuild \/ RtFail

SpecRT == InitRT /\ [][NextRT]_vars

\* one call of Backend.Authenticate
InitAuth == AuthInit /\ MonIdle /\ RtIdle /\ ParseIdle /\ SessIdle /\ MoreIdle

AuthNext ==
    \/ AuthProbe
    \/ AuthLoop
    \/ AuthLoopEnd
    \/ \E i \in 1..Len(tasks) : TaskAuth(i)
    \/ \E i \in 1..Len(tasks) : TaskSend(i)
    \/ AuthWait
    \/ AuthCollect

NextAuth == AuthNext

SpecAuth == InitAuth /\ [][NextAuth]_vars

\* bolt.Parse on every input stream within the bounds
InitParse == ParseInit /\ MonIdle /\ RtIdle /\ AuthIdle /\ SessIdle /\ MoreIdle

NextParse == ParseReturn \/ ParsePanic

SpecParse == InitParse /\ [][NextParse]_vars

\* the client sessions, their clients and the backend
InitSess == SessInit /\ MonIdle /\ RtIdle /\ AuthIdle /\ ParseIdle /\ MoreIdle

SessNext ==
    \/ \E s \in Sessions : SessSniff(s)
    \/ \E s \in Sessions : SessHandshake(s)
    \/ \E s \in Sessions : SessHello(s)
    \/ \E s \in Sessions : SessLoop(s)
    \/ \E s \in Sessions : SessUpgrade(s)
    \/ \E s \in Sessions : SessWsFrame(s)
    \/ \E s \in Sessions : SpliceRead(s)
    \/ \E s \in Sessions : ClientSend(s)
    \/ \E s \in Sessions : ClientEnd(s)
    \/ \E s \in Sessions : BackendReply(s)

NextSess == SessNext

SpecSess == InitSess /\ [][NextSess]_vars

\* the same, with every goroutine and every peer scheduled while it can step
SpecSessFair == SpecSess /\ WF_vars(NextSess)

\* the direct connection reader on every stream within the bounds
InitDC == DcInit /\ AllIdle /\ WsIdle /\ TmIdle /\ BkIdle /\ SpIdle

NextDC == DcReadHeader \/ DcReadPayload \/ DcDeliver \/ DcRangeEnd

SpecDC == InitDC /\ [][NextDC]_vars

\* the same, with the goroutine and the consumer scheduled while they can step
SpecDCFair == SpecDC /\ WF_vars(NextDC)

\* WsConn.readMessages on every frame within the bounds
InitWs == WsInit /\ AllIdle /\ DcIdle /\ TmIdle /\ BkIdle /\ SpIdle

NextWs == WsReturn \/ WsPanic

SpecWs == InitWs /\ [][NextWs]_vars

\* bolt.ParseTinyMap on every encoded tiny-map within the bounds
InitTm == TmInit /\ AllIdle /\ DcIdle /\ WsIdle /\ BkIdle /\ SpIdle

NextTm == TmReturn \/ TmPanic

SpecTm == InitTm /\ [][NextTm]_vars

\* sessions calling Backend.RoutingTable beside a monitor that refreshes
InitBk == BkInit /\ AllIdle /\ DcIdle /\ WsIdle /\ TmIdle /\ SpIdle

NextBk ==
    \/ BkRefresh
    \/ \E s \in BkSessions : BkCall(s)
    \/ \E s \in BkSessions : BkReceive(s)
    \/ \E s \in BkSessions : BkAssign(s)
    \/ \E s \in BkSessions : BkReturn(s)
    \/ \E s \in BkSessions : BkTimeout(s)
    \/ BkAdvance

SpecBk == InitBk /\ [][NextBk]_vars

\* splice on every stream within the bounds, split in every way
InitSp == SpInit /\ AllIdle /\ DcIdle /\ WsIdle /\ TmIdle /\ BkIdle

NextSp == SpRead \/ SpPanic

SpecSp == InitSp /\ [][NextSp]_vars

(***************************************************************************)
(* Properties of the routing monitor (checked under Spec)                  *)
(***************************************************************************)
Received(c) == {recvLog[c][i] : i \in 1..Len(recvLog[c])}

C2_CreatedAtMonotonic ==
    \A c \in Consumers : \A i, j \in 1..Len(recvLog[c]) :
        i < j => recvLog[c][i].CreatedAt <= recvLog[c][j].CreatedAt

\* a consumer that received the first snapshot and then the third, created later
C2_Witness ==
    \E c \in Consumers :
        /\ Len(recvLog[c]) = 2
        /\ recvLog[c][1].ptr = 1
        /\ recvLog[c][2].ptr = 3
        /\ recvLog[c][1].CreatedAt < recvLog[c][2].CreatedAt

\* C3: with consumers that only receive, the send of the publish step always
\* succeeds: panic("monitor channel full") is unreachable.
C3_SendNeverFails == proc # "panicChannelFull"

\* a publication has ended after a consumer had emptied the slot, and one after
\* nobody had
C3_Witness ==
    /\ published = 3
    /\ Len(chanC) = 1
    /\ \E c \in Consumers : Len(recvLog[c]) = 1 /\ recvLog[c][1].ptr = 1

\* C4: once the goroutine has received the halt signal there is no further
\* refresh, no further publication and no termination by the watchdog.
C4_HaltEndsMonitor ==
    [][halted => /\ nextId' = nextId
                 /\ published' = published
                 /\ proc' # "fatalWatchdog"]_vars

\* C5: a monitor that was not halted and whose last successful refresh is more
\* than 5 x TTL old has terminated the process.
C5_WatchdogTerminates ==
    (/\ ~halted
     /\ monPc # "new"
     /\ clock - innerRt.rt.CreatedAt > WatchdogFactor * innerRt.rt.Ttl)
        => proc # "running"

\* C10: every snapshot published and every value the ticker is armed or reset
\* with has a strictly positive TTL.
C10_TtlPositive ==
    /\ \A i \in 1..Len(chanC) : chanC[i].rt.Ttl > 0
    /\ \A c \in Consumers : \A e \in Received(c) : e.Ttl > 0
    /\ proc # "panicTicker"

(***************************************************************************)
(* Properties of getNewRoutingTable (checked under SpecRT)                 *)
(***************************************************************************)
listed(m) == UNION {Range(m[db]) : db \in DOMAIN m}

\* C8: the Hosts of a snapshot are the hosts of its reader lists and of its
\* writer lists; an address the query result gives the role ROUTE only is
\* not among them.
C8_HostsIsUnion ==
    rtPc = "built" =>
        /\ rtOut.Hosts = listed(rtOut.readers) \cup listed(rtOut.writers)
        /\ \A h \in rtOut.Hosts :
              \E i \in 1..Len(qRows) :
                  qRows[i].address = h /\ qRows[i].role \in {"READ", "WRITE"}

\* a snapshot with a reader or a writer, built from a result with a ROUTE row
\* whose address is not in Hosts
C8_Witness ==
    /\ rtPc = "built"
    /\ rtOut.Hosts # {}
    /\ \E i \in 1..Len(qRows) :
          qRows[i].role = "ROUTE" /\ qRows[i].address \notin rtOut.Hosts

\* C9: the default database is a key of the readers and of the writers of
\* every snapshot.
C9_DefaultDbIsKey ==
    rtPc = "built" =>
        rtOut.DefaultDb \in (DOMAIN rtOut.readers) \cap (DOMAIN rtOut.writers)

(***************************************************************************)
(* Properties of Backend.Authenticate (checked under SpecAuth)             *)
(***************************************************************************)
\* C6: the probe comes first, and when the default writer rejects the HELLO,
\* Authenticate returns the error and no other host ever sees the HELLO.
C6_ProbeFirst ==
    /\ (\E h \in AuthHosts \ {aWriter} : attempts[h] > 0) =>
           attempts[aWriter] > 0 /\ aWriter \in accepts
    /\ (attempts[aWriter] > 0 /\ aWriter \notin accepts) =>
           aPc = "failed" /\ conns = <<>>

\* the probe was rejected, with two other hosts in the routing table
C6_Witness ==
    /\ aPc = "failed"
    /\ aHosts = AuthHosts
    /\ attempts[aWriter] = 1

\* C7: when the probe host accepts, Authenticate returns a map whose keys are
\* the probe host and the other hosts that accept the HELLO.
C7_PartialAuth ==
    aPc = "returned" => DOMAIN conns = {aWriter} \cup accepts

(***************************************************************************)
(* Properties of bolt.Parse (checked under SpecParse)                      *)
(***************************************************************************)
Datas(messages) == Concat([k \in 1..Len(messages) |-> messages[k].Data])

\* C19: on every well-formed stream (framed messages of one or more chunks
\* each, then possibly a truncated frame) Parse returns without error, and
\* the Data of the messages followed by the tail is the input.
C19_ParseRoundTrip ==
    pPc # "call" =>
        /\ pOut.kind = "ok"
        /\ Datas(pOut.messages) \o pOut.chunk = pBuf

SingleChunk == \A k \in 1..Len(pFrames) : Len(pFrames[k]) = 1

\* C20: on complete frames followed by a frame cut at any byte position
\* Parse neither fails nor panics; the messages are exactly the complete
\* frames and the tail is exactly the bytes of the cut frame.
C20_ParseBoundary ==
    (pPc # "call" /\ SingleChunk) =>
        /\ pOut.kind = "ok"
        /\ [k \in 1..Len(pOut.messages) |-> pOut.messages[k].Data]
               = [k \in 1..Len(pFrames) |-> encodeFrame(pFrames[k])]
        /\ pOut.chunk = pTrunc

(***************************************************************************)
(* Properties of the client sessions (checked under SpecSess)              *)
(***************************************************************************)
readIs(s, magic) == ~sniff[s].err /\ sniff[s].bytes = magic

\* C11: the first read asks for four bytes and takes nothing more; the
\* Bolt magic 60 60 B0 17 leads to the handshake, "GET " to the WebSocket
\* upgrade, and after any other four bytes, or fewer than four, the
\* connection is closed with nothing written to the client and without a
\* call of Authenticate.
C11_SniffDispatch ==
    /\ [](\A s \in Sessions :
            (~readIs(s, BoltMagic) /\ ~readIs(s, GetMagic)) =>
                /\ sPc[s] \in {"sniff", "closed"}
                /\ toClient[s] = <<>>
                /\ authCalls[s] = 0
                /\ backends[s] = {})
    /\ [][\A s \in Sessions :
            (sPc[s] = "sniff" /\ sPc'[s] # "sniff") =>
                /\ cliRead'[s] = cliRead[s]
                /\ sPc'[s] = IF readIs(s, BoltMagic) THEN "handshake"
                             ELSE IF readIs(s, GetMagic) THEN "upgrade"
                             ELSE "closed"]_vars

C11_Witness ==
    \E s \in Sessions :
        /\ sniff[s] = [bytes |-> <<96, 96, 176, 24>>, err |-> FALSE]
        /\ sPc[s] = "closed"

wrote(s, t) == \E k \in 1..Len(toClient[s]) : toClient[s][k].T = t

\* C12: a connection that opens with "GET " and completes the WebSocket
\* upgrade goes on to the Bolt handshake: it is not closed, with the
\* client's first frame read, before the handshake reply is written.
C12_WsResumesAtHandshake ==
    \A s \in Sessions :
        (readIs(s, GetMagic) /\ cliRead[s] = 2 /\ sPc[s] = "closed")
            => wrote(s, "MATCH")

\* C13: the read of the HELLO takes no later message of the client, and
\* what has been written to the backend is, in order, every message the
\* session has read after the HELLO.
C13_ClientOrder ==
    \A s \in Sessions :
        (sProc = "running" /\ sPc[s] = "loop") =>
            /\ helloN[s] = 1
            /\ toServer[s] = SubSeq(script[s], 3, cliRead[s])

\* C14: a RUN or BEGIN goes to a connection chosen by its mode: to a
\* writer for WRITE and to a reader for READ.
C14_RoutedByMode ==
    \A s \in Sessions : \A k \in 1..Len(toServer[s]) :
        toServer[s][k].T \in {"RUN", "BEGIN"} =>
            server[s] \in IF ValidateMode(toServer[s][k]) = "READ"
                          THEN SessReaders ELSE SessWriters

blocked(s) == \E p \in 1..Len(splices[s]) : splices[s][p] = "send"

\* C15: a splice that has seen the end of the transaction and written it
\* to the client delivers its completion signal and ends.
C15_SpliceEnds ==
    \A s \in Sessions : blocked(s) ~> (~blocked(s) \/ sProc # "running")

\* C16: at most one splice of a session is pumping at any time.
C16_OneSplice ==
    \A s \in Sessions :
        Cardinality({p \in 1..Len(splices[s]) : splices[s][p] = "read"}) <= 1

\* C17: no fault of a session (versions, malformed frame, HELLO, rejected
\* probe, client read error) terminates the process.
C17_FaultIsolation == sProc = "running"

\* C18: when an authenticated session has ended, none of its backend
\* connections is open.
C18_BackendsClosed ==
    \A s \in Sessions :
        (sProc = "running" /\ sPc[s] = "closed") => backends[s] = {}

(***************************************************************************)
(* Properties of the direct connection reader (checked under SpecDC)       *)
(***************************************************************************)
onWire(k) == encodeFrame(dcFrames[k])

\* C21: the reader yields exactly one Message for each well-formed message
\* on the stream: its Data is the on-wire bytes of that message and its type
\* is the one IdentifyType assigns to them; the reader does not stop before
\* the end of the stream.
C21_ReaderYieldsMessage ==
    /\ dcPc # "panicked"
    /\ Len(dcReturned) <= Len(dcFrames)
    /\ \A k \in 1..Len(dcReturned) :
          dcReturned[k] = [T |-> IdentifyType(onWire(k)), Data |-> onWire(k)]
    /\ (dcPc = "hungup" /\ Len(dcFrames) > 0) => Len(dcReturned) = Len(dcFrames)

IsPrefix(a, b) == Len(a) <= Len(b) /\ a = SubSeq(b, 1, Len(a))

\* C22: the consumer receives the messages readMessage returned, in that
\* order; when the stream reaches its end the channel is closed with all of
\* them delivered, and the consumer that ranges over R() terminates.
C22_EndOfStream ==
    /\ [](IsPrefix(dcRecv, dcReturned))
    /\ [](dcPc = "hungup" => (dcChan = "closed" /\ dcRecv = dcReturned))
    /\ (dcPc = "hungup" ~> dcConsumer = "done")

C22_Witness ==
    /\ dcConsumer = "done"
    /\ Len(dcRecv) = 2
    /\ dcStream = <<>>

\* C25: before the first message and after every message readMessage
\* returns, every byte of the scratch buffer is 0xFF.
C25_BufferScrubbed ==
    (dcPc \in {"header", "send"} /\ dcPos = 0 /\ dcHeld = 0)
        => dcBuf = blank(DcBufLen)

C25_Witness ==
    /\ dcPc = "send"
    /\ dcMsg.Data = <<0, 4, 177, 113, 145, 1, 0, 0>>
    /\ Len(dcReturned) = 2

read(stream, rest) == SubSeq(stream, 1, Len(stream) - Len(rest))

\* C28: however the reads split the stream, no byte read is lost: the bytes
\* read so far are the Data of the messages returned, followed by the part
\* of the current message that the buffer holds.
C28_ShortReads ==
    dcPc \in {"header", "payload", "send"} =>
        read(encodeStream(dcFrames), dcStream)
            = Datas(dcReturned) \o slice(dcBuf, 0, dcPos + dcHeld)

(***************************************************************************)
(* Properties of the WebSocket reader (checked under SpecWs)               *)
(***************************************************************************)
\* C23: for a binary frame the messages returned are, in order, the parts
\* of the payload, byte for byte: a part followed by 00 00 with its
\* terminator, and a part not followed by 00 00 with the type CHUNKED.
C23_WsFrameParts ==
    (wsPc # "call" /\ wsHeader = [Fin |-> TRUE, OpCode |-> "binary"]) =>
        /\ wsPc = "returned"
        /\ Len(wsOut) = Len(wsParts)
        /\ \A k \in 1..Len(wsOut) :
              /\ wsOut[k].Data = encodePart(wsParts[k])
              /\ ~wsParts[k].last => wsOut[k].T = ChunkedMsg

C27_FanOutOnce ==
    aPc = "returned" =>
        /\ \A h \in aHosts \ {aWriter} : attempts[h] = 1
        /\ \A h \in DOMAIN conns : conns[h] = h

(***************************************************************************)
(* More properties of the routing monitor (checked under Spec)             *)
(***************************************************************************)
\* the goroutine enters its select with the watchdog armed for 5 x the TTL
\* of the most recent snapshot
armedForLatest ==
    (monPc' = "select" /\ monPc # "select" /\ ~halted') =>
        wdLeft' = WatchdogFactor * innerRt'.rt.Ttl

\* C30: while the monitor is not halted and every tick is followed by a
\* successful refresh, the watchdog never terminates the process, whatever
\* the TTLs of the snapshots, and the watchdog is always armed for 5 x the
\* TTL of the most recent snapshot.
C30_HealthyWatchdog ==
    /\ [](~halted => proc # "fatalWatchdog")
    /\ [][armedForLatest]_vars

(***************************************************************************)
(* Properties of Backend.RoutingTable (checked under SpecBk)               *)
(***************************************************************************)
\* C26: with the monitor refreshing at every tick, a call of RoutingTable()
\* that finds the cached snapshot expired returns a newer snapshot, and no
\* call reaches the timeout that terminates the process, whatever the TTL.
C26_ConcurrentCalls ==
    /\ bkProc # "fatalTimeout"
    /\ \A s \in BkSessions :
          (bkCalls[s].pc = "returned" /\ bkCalls[s].old > 0) =>
              bkCalls[s].got > bkCalls[s].old

(***************************************************************************)
(* Properties of splice on a byte stream (checked under SpecSp)            *)
(***************************************************************************)
\* C29: however the reads split the stream, splice never panics, and once
\* it has read the terminal message (a GOODBYE, or a SUCCESS with a
\* bookmark) it has left its loop.
C29_TerminalAcrossReads ==
    /\ spPc # "panicked"
    /\ spStream = <<>> => spPc = "done"

====
